---- MODULE Spec2Model ----
(***************************************************************************)
(* Model of emmett-google-pubsub: the Pub/Sub message bus facade           *)
(* (pubsubMessageBus.ts), the provisioner (topicManager.ts), the message   *)
(* dispatch (messageHandler.ts) and the transport they drive.              *)
(*                                                                         *)
(* Asynchronous functions are cut at their awaits: one action per resumed  *)
(* continuation, the synchronous prefix of a call being part of the action *)
(* that makes the call.                                                    *)
(***************************************************************************)
EXTENDS Integers, Sequences, FiniteSets, TLC

(***************************************************************************)
(* Bounds                                                                  *)
(***************************************************************************)
MaxRegs == 2        \* handle()/subscribe() calls per run
MaxCycleRegs == 1   \* handle()/subscribe() calls per run that also closes the bus
MaxArgs == 2        \* type names passed to one handle()/subscribe() call
MaxStarts == 2      \* start() calls per run
MaxCloses == 1      \* close() calls per run
MaxPubs == 1        \* send()/publish() calls per run
MaxFaults == 1      \* transport operations that fail per run
MaxAttempts == 1    \* deliveries of one message on one subscription
MaxWords == 2       \* fragments in a thrown error's message

(***************************************************************************)
(* Values                                                                  *)
(***************************************************************************)
Inst == {"i1", "i2"}                 \* instanceId of a bus
Types == {"AddItemCommand", "ItemAdded"}    \* message type names
Handlers == {"h1", "h2"}             \* handler callbacks
Kinds == {"command", "event"}
NoId == "none"                       \* an absent optional subscriptionId
Prefix == "emmett"

(***************************************************************************)
(* Map<K, V>: insertion-ordered sequence of [k, v] entries                 *)
(***************************************************************************)
MapHas(m, k) == \E i \in 1..Len(m) : m[i].k = k

MapGet(m, k) == m[CHOOSE i \in 1..Len(m) : m[i].k = k].v

MapSet(m, k, v) ==
    IF MapHas(m, k)
    THEN [i \in 1..Len(m) |-> IF m[i].k = k THEN [k |-> k, v |-> v] ELSE m[i]]
    ELSE Append(m, [k |-> k, v |-> v])

\* handlers.get(k) ?? dflt
MapGetOr(m, k, dflt) == IF MapHas(m, k) THEN MapGet(m, k) ELSE dflt

Range(s) == {s[i] : i \in 1..Len(s)}

RECURSIVE SeqsUpTo(_, _)
SeqsUpTo(S, n) ==
    IF n = 0 THEN {<<>>}
    ELSE LET shorter == SeqsUpTo(S, n - 1)
         IN  shorter \cup {Append(s, x) : s \in {q \in shorter : Len(q) = n - 1}, x \in S}

(***************************************************************************)
(* Resource names (topicManager.ts)                                        *)
(***************************************************************************)
getCommandTopicName(commandType, prefix) == <<prefix, "cmd", commandType>>

getEventTopicName(eventType, prefix) == <<prefix, "evt", eventType>>

getCommandSubscriptionName(commandType, instanceId, prefix) ==
    <<prefix, "cmd", commandType, instanceId>>

getEventSubscriptionName(eventType, subscriptionId, prefix) ==
    <<prefix, "evt", eventType, subscriptionId>>

(***************************************************************************)
(* Thrown values and their classification (messageHandler.ts)              *)
(***************************************************************************)
\* Fragments an error message is made of, as written by the thrower.
Words == {"Network", "TIMEOUT", "unavailable", "ECONNREFUSED", "enotfound",
          "Validation", "invalid", "Not Found", "already exists", "boom"}

\* String.prototype.toLowerCase on a fragment
toLowerCase(w) ==
    CASE w = "Network" -> "network"
      [] w = "TIMEOUT" -> "timeout"
      [] w = "ECONNREFUSED" -> "econnrefused"
      [] w = "Validation" -> "validation"
      [] w = "Not Found" -> "not found"
      [] w = "Command" -> "command"
      [] w = "AddItem" -> "additem"
      [] w = "ItemAdded" -> "itemadded"
      [] w = "Mark" -> "mark"
      [] w = "Unavailable" -> "unavailable"
      [] OTHER -> w

LowerSeq(msg) == [i \in 1..Len(msg) |-> toLowerCase(msg[i])]

\* The fragments a message type name is made of.
TypeWords(messageType) ==
    CASE messageType = "AddItemCommand" -> <<"AddItem", "Command">>
      [] messageType = "MarkUnavailable" -> <<"Mark", "Unavailable">>
      [] OTHER -> <<messageType>>

\* String.prototype.includes over the fragments of a message
includes(msg, marker) == \E i \in 1..Len(msg) : msg[i] = marker

\* A thrown value: an Error (possibly an EmmettError) with a message, or a
\* non-Error value (string, object, undefined).
Thrown(isError, isEmmett, message) ==
    [thrown |-> TRUE, isError |-> isError, isEmmett |-> isEmmett, message |-> message]

\* The outcome of a call that completes without throwing.
Ok == [thrown |-> FALSE, isError |-> FALSE, isEmmett |-> FALSE, message |-> <<>>]

shouldRetry_noLower(error) ==
    IF ~error.isError THEN TRUE
    ELSE LET errorMessage == error.message
         IN  IF \/ includes(errorMessage, "network")
                \/ includes(errorMessage, "timeout")
                \/ includes(errorMessage, "econnrefused")
                \/ includes(errorMessage, "enotfound")
                \/ includes(errorMessage, "unavailable")
             THEN TRUE
             ELSE IF error.isEmmett THEN FALSE
             ELSE IF \/ includes(errorMessage, "validation")
                     \/ includes(errorMessage, "invalid")
                     \/ includes(errorMessage, "not found")
                     \/ includes(errorMessage, "already exists")
             THEN FALSE
             ELSE TRUE

shouldRetry(error) ==
    IF ~error.isError THEN TRUE
    ELSE LET errorMessage == LowerSeq(error.message)
         IN  IF \/ includes(errorMessage, "network")
                \/ includes(errorMessage, "timeout")
                \/ includes(errorMessage, "econnrefused")
                \/ includes(errorMessage, "enotfound")
                \/ includes(errorMessage, "unavailable")
             THEN TRUE
             ELSE IF error.isEmmett THEN FALSE
             ELSE IF \/ includes(errorMessage, "validation")
                     \/ includes(errorMessage, "invalid")
                     \/ includes(errorMessage, "not found")
                     \/ includes(errorMessage, "already exists")
             THEN FALSE
             ELSE TRUE

\* The outer catch of handleCommandMessage / handleEventMessage.
ClassifyCaught(error) == IF shouldRetry(error) THEN "nack" ELSE "ack"

\* deserialize(message.data): the message, or the Error it throws, whose text
\* carries the parse failure detail.
deserialize(payload) ==
    IF payload.decodable THEN Ok
    ELSE Thrown(TRUE, FALSE, <<"Failed to deserialize message">> \o payload.detail)

\* handleCommandMessage: outs[i] is what the i-th handler of the list does
\* when invoked (Ok, or the value it throws).
handleCommandMessage(payload, handlersMap, commandType, outs) ==
    LET commandHandlers == MapGetOr(handlersMap, commandType, <<>>)
    IN  IF Len(commandHandlers) = 0
        THEN [result |-> ClassifyCaught(Thrown(TRUE, TRUE, <<"No handler registered for command">>
                                                            \o TypeWords(commandType))),
              invoked |-> <<>>]
        ELSE IF Len(commandHandlers) > 1
        THEN [result |-> ClassifyCaught(Thrown(TRUE, TRUE, <<"Multiple handlers registered for command">>
                                                            \o TypeWords(commandType))),
              invoked |-> <<>>]
        ELSE IF deserialize(payload).thrown
        THEN [result |-> ClassifyCaught(deserialize(payload)), invoked |-> <<>>]
        ELSE [result |-> IF ~outs[1].thrown THEN "ack" ELSE ClassifyCaught(outs[1]),
              invoked |-> <<commandHandlers[1]>>]

\* The sequential walk of handleEventMessage from position i on.
RECURSIVE EventWalk(_, _, _, _)
EventWalk(eventHandlers, outs, i, invoked) ==
    IF i > Len(eventHandlers) THEN [result |-> "ack", invoked |-> invoked]
    ELSE LET now == Append(invoked, eventHandlers[i])
         IN  IF outs[i].thrown /\ shouldRetry(outs[i])
             THEN [result |-> "nack", invoked |-> now]
             ELSE EventWalk(eventHandlers, outs, i + 1, now)

handleEventMessage(payload, handlersMap, eventType, outs) ==
    LET eventHandlers == MapGetOr(handlersMap, eventType, <<>>)
    IN  IF Len(eventHandlers) = 0 THEN [result |-> "ack", invoked |-> <<>>]
        ELSE IF deserialize(payload).thrown
        THEN [result |-> ClassifyCaught(deserialize(payload)), invoked |-> <<>>]
        ELSE EventWalk(eventHandlers, outs, 1, <<>>)


(***************************************************************************)
(* State                                                                   *)
(***************************************************************************)
VARIABLES
    buses,                  \* instanceIds of the buses constructed (getPubSubMessageBus)
    config,                 \* per bus: autoCreateResources, cleanupOnClose, closePubSubClient, topicPrefix
    limits,                 \* per run: how many calls of each operation the callers make
    handlers,               \* per bus: Map type -> handler list
    subscriptionHandlers,   \* per bus: Map subscription id -> handler
    eventSubscriptionIds,   \* per bus: Map type -> subscription ids
    commandTypes,           \* per bus: Set of types registered by handle()
    eventTypes,             \* per bus: Set of types registered by subscribe()
    subscriptions,          \* per bus: SubscriptionInfo[] (tracked handles)
    started,                \* per bus: lifecycle flag
    uuid,                   \* number of UUIDs generated so far
    made,                   \* number of calls made so far, per operation
    tasks,                  \* createSubscriptionForType invocations in flight
    starts,                 \* start() calls in flight
    closes,                 \* close() calls in flight
    pubs,                   \* send()/publish() calls in flight
    topics,                 \* transport: existing topics
    remoteSubs,             \* transport: existing subscriptions
    objs,                   \* transport: Subscription objects handed out by topic.subscription()
    clientOpen,             \* transport: per bus, whether its PubSub client is open
    faults,                 \* transport requests that have failed so far
    msgs,                   \* transport: messages accepted by topic.publishMessage
    deliveries,             \* transport: outstanding deliveries
    log,                    \* dispatches made by message listeners (ghost)
    last,                   \* the latest handle()/subscribe()/start()/close() call made (ghost)
    lastPub,                \* outcome of the latest settled send()/publish() call (ghost)
    hist,                   \* per bus: the calls made on it, in the order they settled (ghost)
    dIn,                    \* dispatch in isolation: the inputs
    dOut,                   \* dispatch in isolation: the result
    pendingMessages,        \* scheduler: ScheduledMessageInfo[] (buffered entries)
    useEmulator,            \* scheduler: buffered mode (config.useEmulator ?? false)
    clock,                  \* what new Date() reads
    scheduled,              \* the schedule() calls made so far (ghost)
    dequeued,               \* the dequeue() calls made so far, with what they returned (ghost)
    scheduledTopic,         \* scheduler: whether this.scheduledTopic is set
    scheduling,             \* schedule() calls in flight (native mode)
    settled                 \* the schedule() calls that have settled, with their outcome (ghost)

fixVars == <<buses, config, limits>>
regVars == <<handlers, subscriptionHandlers, eventSubscriptionIds, commandTypes, eventTypes, uuid>>
netVars == <<topics, remoteSubs, objs, clientOpen, faults, msgs, deliveries>>
ghostVars == <<log, last, lastPub, hist>>
nativeVars == <<scheduledTopic, scheduling, settled>>
schedVars == <<pendingMessages, useEmulator, clock, scheduled, dequeued, nativeVars>>
dispVars == <<dIn, dOut, schedVars>>
vars == <<fixVars, regVars, subscriptions, started, made, tasks, starts, closes, pubs,
          netVars, ghostVars, dispVars>>

NoCall == [op |-> "none", bus |-> "none", handler |-> "none", types |-> <<>>, threw |-> FALSE]
NoPub == [bus |-> "none", type |-> "none", kind |-> "none", result |-> "none"]
NoDispatch == [kind |-> "none"]

\* The state right after getPubSubMessageBus(config) for every bus in bs.
InitBuses(bs, cfgs, lim) ==
    /\ buses = bs
    /\ config \in [bs -> cfgs]
    /\ limits = lim
    /\ handlers = [b \in bs |-> <<>>]
    /\ subscriptionHandlers = [b \in bs |-> <<>>]
    /\ eventSubscriptionIds = [b \in bs |-> <<>>]
    /\ commandTypes = [b \in bs |-> {}]
    /\ eventTypes = [b \in bs |-> {}]
    /\ subscriptions = [b \in bs |-> <<>>]
    /\ started = [b \in bs |-> FALSE]
    /\ uuid = 0
    /\ made = [regs |-> 0, starts |-> 0, closes |-> 0, pubs |-> 0, clears |-> 0]
    /\ tasks = {}
    /\ starts = {}
    /\ closes = {}
    /\ pubs = {}
    /\ topics = {}
    /\ remoteSubs = {}
    /\ objs = <<>>
    /\ clientOpen = [b \in bs |-> TRUE]
    /\ faults = 0
    /\ msgs = <<>>
    /\ deliveries = {}
    /\ log = {}
    /\ last = NoCall
    /\ lastPub = NoPub
    /\ hist = [b \in bs |-> <<>>]

(***************************************************************************)
(* Registration (pubsubMessageBus.ts: handle, subscribe)                   *)
(***************************************************************************)
\* A createSubscriptionForType invocation that has run up to its first await
\* (topic.exists() in getOrCreateTopic). call is the start() call awaiting it,
\* 0 for the detached invocation of a late registration.
NewTask(b, messageType, kind, subscriptionId, call) ==
    [bus |-> b, type |-> messageType, kind |-> kind, subId |-> subscriptionId,
     pc |-> "topicExists", call |-> call]

\* handle() without its duplicate check: a later handler replaces the earlier.
RECURSIVE HandleLoop_unchecked(_, _, _, _)
HandleLoop_unchecked(b, commandHandler, ts, st) ==
    IF ts = <<>> THEN st
    ELSE LET commandType == Head(ts)
         IN  HandleLoop_unchecked(b, commandHandler, Tail(ts),
                [handlers |-> MapSet(st.handlers, commandType, <<commandHandler>>),
                 commandTypes |-> st.commandTypes \cup {commandType},
                 launched |-> IF started[b]
                              THEN st.launched \cup {NewTask(b, commandType, "command", NoId, 0)}
                              ELSE st.launched,
                 threw |-> FALSE])

\* The loop of handle() over the rest ts of its type names; st carries the
\* registry as left by the iterations made so far.
RECURSIVE HandleLoop(_, _, _, _)
HandleLoop(b, commandHandler, ts, st) ==
    IF ts = <<>> THEN st
    ELSE LET commandType == Head(ts)
         IN  IF MapHas(st.handlers, commandType)
             THEN [st EXCEPT !.threw = TRUE]
             ELSE HandleLoop(b, commandHandler, Tail(ts),
                    [handlers |-> MapSet(st.handlers, commandType, <<commandHandler>>),
                     commandTypes |-> st.commandTypes \cup {commandType},
                     launched |-> IF started[b]
                                  THEN st.launched \cup {NewTask(b, commandType, "command", NoId, 0)}
                                  ELSE st.launched,
                     threw |-> FALSE])

handle(b, commandHandler, commandTypeNames) ==
    LET st == HandleLoop(b, commandHandler, commandTypeNames,
                [handlers |-> handlers[b], commandTypes |-> commandTypes[b],
                 launched |-> {}, threw |-> FALSE])
    IN  /\ made.regs < limits.regs
        /\ made' = [made EXCEPT !.regs = @ + 1]
        /\ handlers' = [handlers EXCEPT ![b] = st.handlers]
        /\ commandTypes' = [commandTypes EXCEPT ![b] = st.commandTypes]
        /\ tasks' = tasks \cup st.launched
        /\ last' = [op |-> "handle", bus |-> b, handler |-> commandHandler,
                    types |-> commandTypeNames, threw |-> st.threw]
        /\ hist' = [hist EXCEPT ![b] = Append(@, IF st.threw THEN "handle_threw" ELSE "handle")]
        /\ UNCHANGED <<fixVars, subscriptionHandlers, eventSubscriptionIds, eventTypes, uuid,
                       subscriptions, started, starts, closes, pubs, netVars,
                       log, lastPub, dispVars>>

\* utils.ts generateUUID: the n-th identifier generated in the run
generateUUID(n) == "u" \o ToString(n)

\* The loop of subscribe() over the rest ts of its type names.
RECURSIVE SubscribeLoop(_, _, _, _)
SubscribeLoop(b, eventHandler, ts, st) ==
    IF ts = <<>> THEN st
    ELSE LET eventType == Head(ts)
             subscriptionId == generateUUID(st.uuid + 1)
             existing == MapGetOr(st.handlers, eventType, <<>>)
             existingIds == MapGetOr(st.eventSubscriptionIds, eventType, <<>>)
         IN  SubscribeLoop(b, eventHandler, Tail(ts),
                [eventTypes |-> st.eventTypes \cup {eventType},
                 uuid |-> st.uuid + 1,
                 subscriptionHandlers |-> MapSet(st.subscriptionHandlers, subscriptionId, eventHandler),
                 handlers |-> MapSet(st.handlers, eventType, Append(existing, eventHandler)),
                 eventSubscriptionIds |->
                     MapSet(st.eventSubscriptionIds, eventType, Append(existingIds, subscriptionId)),
                 launched |-> IF started[b]
                              THEN st.launched \cup {NewTask(b, eventType, "event", subscriptionId, 0)}
                              ELSE st.launched])

subscribe(b, eventHandler, eventTypeNames) ==
    LET st == SubscribeLoop(b, eventHandler, eventTypeNames,
                [eventTypes |-> eventTypes[b], uuid |-> uuid,
                 subscriptionHandlers |-> subscriptionHandlers[b],
                 handlers |-> handlers[b],
                 eventSubscriptionIds |-> eventSubscriptionIds[b],
                 launched |-> {}])
    IN  /\ made.regs < limits.regs
        /\ made' = [made EXCEPT !.regs = @ + 1]
        /\ eventTypes' = [eventTypes EXCEPT ![b] = st.eventTypes]
        /\ uuid' = st.uuid
        /\ subscriptionHandlers' = [subscriptionHandlers EXCEPT ![b] = st.subscriptionHandlers]
        /\ handlers' = [handlers EXCEPT ![b] = st.handlers]
        /\ eventSubscriptionIds' = [eventSubscriptionIds EXCEPT ![b] = st.eventSubscriptionIds]
        /\ tasks' = tasks \cup st.launched
        /\ last' = [op |-> "subscribe", bus |-> b, handler |-> eventHandler,
                    types |-> eventTypeNames, threw |-> FALSE]
        /\ hist' = [hist EXCEPT ![b] = Append(@, "subscribe")]
        /\ UNCHANGED <<fixVars, commandTypes, subscriptions, started, starts, closes, pubs,
                       netVars, log, lastPub, dispVars>>

\* The argument lists a registration call is made with.
ArgLists == SeqsUpTo(Types, limits.args) \ {<<>>}

\* The callback passed by the n-th registration call of the run: every call
\* passes a closure of its own.
HandlerOfCall(n) == "h" \o ToString(n)

(***************************************************************************)
(* Kind of a type (pubsubMessageBus.ts)                                    *)
(***************************************************************************)
\* The fragments of a type name.
determineMessageKindFallback(messageType) ==
    LET typeStr == LowerSeq(TypeWords(messageType))
    IN  IF includes(typeStr, "command") THEN "command" ELSE "event"

\* determineMessageKind deciding from the name alone.
determineMessageKind_nameOnly(b, messageType) == determineMessageKindFallback(messageType)

\* determineMessageKind(messageType) of bus b
determineMessageKind(b, messageType) ==
    IF messageType \in commandTypes[b] THEN "command"
    ELSE IF messageType \in eventTypes[b] THEN "event"
    ELSE determineMessageKindFallback(messageType)

(***************************************************************************)
(* Provisioning (createSubscriptionForType, getOrCreateTopic,              *)
(* getOrCreateSubscription, createMessageListener)                         *)
(***************************************************************************)
TopicNameOf(t) ==
    IF t.kind = "command"
    THEN getCommandTopicName(t.type, config[t.bus].topicPrefix)
    ELSE getEventTopicName(t.type, config[t.bus].topicPrefix)

SubNameOf(t) ==
    IF t.kind = "command"
    THEN getCommandSubscriptionName(t.type, t.bus, config[t.bus].topicPrefix)
    ELSE getEventSubscriptionName(t.type, IF t.subId = NoId THEN t.bus ELSE t.subId,
                                  config[t.bus].topicPrefix)

\* A transport request can be answered with a failure.
CanFail == faults < limits.faults

\* subscription.on('message', ...) and subscription.on('error', ...): the
\* listener carries the kind, the type and the handler map it closes over:
\* the bus's live map ("shared") or a map holding one handler ("single").
createMessageListener(obj, messageType, kind, map, hs) ==
    [obj EXCEPT !.listeners = Append(@, [kind |-> kind, type |-> messageType,
                                         map |-> map, hs |-> hs]),
                !.errListeners = @ + 1]

\* topic.subscription(subName): a Subscription object of bus b without listeners.
NewObj(b, name) ==
    [bus |-> b, name |-> name, listeners |-> <<>>, errListeners |-> 0,
     closeCalls |-> 0, deleteCalls |-> 0]

\* The move of task t to program point pc.
Moved(t, pc) == (tasks \ {t}) \cup {[t EXCEPT !.pc = pc]}

\* createSubscriptionForType attaching, for every kind, a listener on the
\* bus's shared handler map.
AttachAndTrack_shared(t) ==
    LET b == t.bus
        obj == createMessageListener(NewObj(b, SubNameOf(t)), t.type, t.kind, "shared", <<>>)
    IN  /\ objs' = Append(objs, obj)
        /\ subscriptions' = [subscriptions EXCEPT ![b] =
               Append(@, [topic |-> TopicNameOf(t), subscription |-> Len(objs) + 1,
                          messageType |-> t.type, kind |-> t.kind])]
        /\ tasks' = tasks \ {t}

\* createSubscriptionForType tracking the handle without attaching a listener.
AttachAndTrack_noListener(t) ==
    LET b == t.bus
    IN  /\ objs' = Append(objs, NewObj(b, SubNameOf(t)))
        /\ subscriptions' = [subscriptions EXCEPT ![b] =
               Append(@, [topic |-> TopicNameOf(t), subscription |-> Len(objs) + 1,
                          messageType |-> t.type, kind |-> t.kind])]
        /\ tasks' = tasks \ {t}

\* The rest of createSubscriptionForType once getOrCreateSubscription has
\* returned: attach the listener, track the handle.
AttachAndTrack(t) ==
    LET b == t.bus
        fresh == NewObj(b, SubNameOf(t))
        obj == IF t.kind = "event" /\ t.subId # NoId
               THEN IF MapHas(subscriptionHandlers[b], t.subId)
                    THEN createMessageListener(fresh, t.type, t.kind, "single",
                                               <<MapGet(subscriptionHandlers[b], t.subId)>>)
                    ELSE fresh
               ELSE createMessageListener(fresh, t.type, t.kind, "shared", <<>>)
    IN  /\ objs' = Append(objs, obj)
        /\ subscriptions' = [subscriptions EXCEPT ![b] =
               Append(@, [topic |-> TopicNameOf(t), subscription |-> Len(objs) + 1,
                          messageType |-> t.type, kind |-> t.kind])]
        /\ tasks' = tasks \ {t}

\* getOrCreateTopic resumes from topic.exists()
getOrCreateTopic_exists(t) ==
    /\ t.pc = "topicExists"
    /\ clientOpen[t.bus]
    /\ tasks' = Moved(t, IF TopicNameOf(t) \in topics THEN "subExists" ELSE "topicCreate")
    /\ UNCHANGED <<fixVars, regVars, subscriptions, started, made, starts, closes, pubs,
                   netVars, ghostVars, dispVars>>

\* getOrCreateTopic resumes from topic.create(): created, or ALREADY_EXISTS
\* (code 6) absorbed when another creator was first.
getOrCreateTopic_create(t) ==
    /\ t.pc = "topicCreate"
    /\ clientOpen[t.bus]
    /\ topics' = topics \cup {TopicNameOf(t)}
    /\ tasks' = Moved(t, "subExists")
    /\ UNCHANGED <<fixVars, regVars, subscriptions, started, made, starts, closes, pubs,
                   remoteSubs, objs, clientOpen, faults, msgs, deliveries,
                   ghostVars, dispVars>>

\* getOrCreateSubscription resumes from subscription.exists()
getOrCreateSubscription_exists(t) ==
    /\ t.pc = "subExists"
    /\ clientOpen[t.bus]
    /\ IF SubNameOf(t) \in remoteSubs
       THEN AttachAndTrack(t)
       ELSE /\ tasks' = Moved(t, "subCreate")
            /\ UNCHANGED <<objs, subscriptions>>
    /\ UNCHANGED <<fixVars, regVars, started, made, starts, closes, pubs,
                   topics, remoteSubs, clientOpen, faults, msgs, deliveries,
                   ghostVars, dispVars>>

\* getOrCreateSubscription resumes from subscription.create(config): created,
\* or ALREADY_EXISTS (code 6) absorbed.
getOrCreateSubscription_create(t) ==
    /\ t.pc = "subCreate"
    /\ clientOpen[t.bus]
    /\ remoteSubs' = remoteSubs \cup {SubNameOf(t)}
    /\ AttachAndTrack(t)
    /\ UNCHANGED <<fixVars, regVars, started, made, starts, closes, pubs,
                   topics, clientOpen, faults, msgs, deliveries,
                   ghostVars, dispVars>>

\* The awaited transport request of the task rejects (a closed client rejects
\* every request): getOrCreateTopic / getOrCreateSubscription wrap and rethrow,
\* which rejects the Promise.all of the start() call awaiting the task, if any.
Provision_fail(t) ==
    /\ \/ /\ clientOpen[t.bus]
          /\ CanFail
          /\ faults' = faults + 1
       \/ /\ ~clientOpen[t.bus]
          /\ UNCHANGED faults
    /\ tasks' = tasks \ {t}
    /\ starts' = {IF c.id = t.call THEN [c EXCEPT !.failed = TRUE] ELSE c : c \in starts}
    /\ UNCHANGED <<fixVars, regVars, subscriptions, started, made, closes, pubs,
                   topics, remoteSubs, objs, clientOpen, msgs, deliveries,
                   ghostVars, dispVars>>

(***************************************************************************)
(* Lifecycle (pubsubMessageBus.ts: start, close)                           *)
(***************************************************************************)
\* The createSubscriptionForType invocations start() makes for one entry of
\* the handlers map.
StartTasksFor(b, messageType, call) ==
    IF determineMessageKind(b, messageType) = "command"
    THEN {NewTask(b, messageType, "command", NoId, call)}
    ELSE LET subIds == MapGetOr(eventSubscriptionIds[b], messageType, <<b>>)
         IN  {NewTask(b, messageType, "event", subIds[k], call) : k \in 1..Len(subIds)}

\* The loop of start() over handlers.entries()
StartTasks(b, call) ==
    UNION {StartTasksFor(b, handlers[b][k].k, call) : k \in 1..Len(handlers[b])}

\* start() without its `if (started) return`: it provisions on every call.
start_call_unguarded(b) ==
    /\ made.starts < limits.starts
    /\ made' = [made EXCEPT !.starts = @ + 1]
    /\ tasks' = tasks \cup StartTasks(b, made.starts + 1)
    /\ starts' = starts \cup {[id |-> made.starts + 1, bus |-> b, failed |-> FALSE]}
    /\ last' = [NoCall EXCEPT !.op = "start", !.bus = b]
    /\ UNCHANGED <<fixVars, regVars, subscriptions, started, closes, pubs, netVars,
                   log, lastPub, hist, dispVars>>

\* start() up to `await Promise.all(subscriptionPromises)`, or its early return.
start_call(b) ==
    /\ made.starts < limits.starts
    /\ made' = [made EXCEPT !.starts = @ + 1]
    /\ IF started[b]
       THEN /\ hist' = [hist EXCEPT ![b] = Append(@, "start_skipped")]
            /\ UNCHANGED <<tasks, starts>>
       ELSE /\ tasks' = tasks \cup StartTasks(b, made.starts + 1)
            /\ starts' = starts \cup {[id |-> made.starts + 1, bus |-> b, failed |-> FALSE]}
            /\ UNCHANGED hist
    /\ last' = [NoCall EXCEPT !.op = "start", !.bus = b]
    /\ UNCHANGED <<fixVars, regVars, subscriptions, started, closes, pubs, netVars,
                   log, lastPub, dispVars>>

\* start() not awaiting the provisioning it has launched.
AllDone_notAwaited(c) == ~c.failed

\* Promise.all has fulfilled: every invocation of the call has completed.
AllDone(c) == ~c.failed /\ ~\E t \in tasks : t.call = c.id

\* start() resumes after Promise.all fulfilled: started = true
start_resolve(c) ==
    /\ AllDone(c)
    /\ started' = [started EXCEPT ![c.bus] = TRUE]
    /\ starts' = starts \ {c}
    /\ hist' = [hist EXCEPT ![c.bus] = Append(@, "start_ok")]
    /\ UNCHANGED <<fixVars, regVars, subscriptions, made, tasks, closes, pubs, netVars,
                   log, last, lastPub, dispVars>>

\* start() resumes in its catch block: throws 'Failed to start message bus: ...'
start_reject(c) ==
    /\ c.failed
    /\ starts' = starts \ {c}
    /\ hist' = [hist EXCEPT ![c.bus] = Append(@, "start_failed")]
    /\ UNCHANGED <<fixVars, regVars, subscriptions, started, made, tasks, closes, pubs, netVars,
                   log, last, lastPub, dispVars>>

\* The Subscription objects tracked by bus b, one per entry of subscriptions.
Tracked(b) == [k \in 1..Len(subscriptions[b]) |-> subscriptions[b][k].subscription]

\* How many entries of the list s equal x.
Count(s, x) == Cardinality({k \in 1..Len(s) : s[k] = x})

\* The end of close(): started = false
CloseDone(c) ==
    /\ closes' = closes \ {c}
    /\ started' = [started EXCEPT ![c.bus] = FALSE]
    /\ hist' = [hist EXCEPT ![c.bus] = Append(@, "close_ok")]

\* close() setting started = false without closing the client.
CloseFromClient_skipClient(c) == CloseDone(c)

\* close() from `if (closePubSubClient !== false)` on, up to its next await
\* or to its end.
CloseFromClient(c) ==
    IF config[c.bus].closePubSubClient # "false"
    THEN /\ closes' = (closes \ {c}) \cup {[c EXCEPT !.pc = "client", !.targets = <<>>]}
         /\ UNCHANGED <<started, hist>>
    ELSE CloseDone(c)

\* close() deleting the subscriptions whatever cleanupOnClose is.
CloseFromCleanup_always(c) ==
    /\ closes' = (closes \ {c}) \cup {[c EXCEPT !.pc = "cleanup", !.targets = Tracked(c.bus)]}
    /\ UNCHANGED <<started, hist>>

\* close() from `if (cleanupOnClose)` on, up to its next await or to its end.
CloseFromCleanup(c) ==
    IF config[c.bus].cleanupOnClose
    THEN /\ closes' = (closes \ {c}) \cup {[c EXCEPT !.pc = "cleanup", !.targets = Tracked(c.bus)]}
         /\ UNCHANGED <<started, hist>>
    ELSE CloseFromClient(c)

\* close() without its removeAllListeners calls.
close_call_keepListeners(b) ==
    /\ made.closes < limits.closes
    /\ made' = [made EXCEPT !.closes = @ + 1]
    /\ IF ~started[b]
       THEN /\ hist' = [hist EXCEPT ![b] = Append(@, "close_skipped")]
            /\ UNCHANGED <<objs, closes>>
       ELSE /\ objs' = [o \in 1..Len(objs) |->
                          IF o \in Range(Tracked(b))
                          THEN [objs[o] EXCEPT !.closeCalls = @ + Count(Tracked(b), o)]
                          ELSE objs[o]]
            /\ closes' = closes \cup {[id |-> made.closes + 1, bus |-> b, pc |-> "wait",
                                       targets |-> <<>>]}
            /\ UNCHANGED hist
    /\ last' = [NoCall EXCEPT !.op = "close", !.bus = b]
    /\ UNCHANGED <<fixVars, regVars, subscriptions, started, tasks, starts, pubs,
                   topics, remoteSubs, clientOpen, faults, msgs, deliveries,
                   log, lastPub, dispVars>>

\* close() up to `await Promise.race(...)`, or its early return: listeners
\* removed from every tracked subscription, subscription.close() called on each.
close_call(b) ==
    /\ made.closes < limits.closes
    /\ made' = [made EXCEPT !.closes = @ + 1]
    /\ IF ~started[b]
       THEN /\ hist' = [hist EXCEPT ![b] = Append(@, "close_skipped")]
            /\ UNCHANGED <<objs, closes>>
       ELSE /\ objs' = [o \in 1..Len(objs) |->
                          IF o \in Range(Tracked(b))
                          THEN [objs[o] EXCEPT !.listeners = <<>>, !.errListeners = 0,
                                               !.closeCalls = @ + Count(Tracked(b), o)]
                          ELSE objs[o]]
            /\ closes' = closes \cup {[id |-> made.closes + 1, bus |-> b, pc |-> "wait",
                                       targets |-> <<>>]}
            /\ UNCHANGED hist
    /\ last' = [NoCall EXCEPT !.op = "close", !.bus = b]
    /\ UNCHANGED <<fixVars, regVars, subscriptions, started, tasks, starts, pubs,
                   topics, remoteSubs, clientOpen, faults, msgs, deliveries,
                   log, lastPub, dispVars>>

\* close() resumes from the race: every subscription.close() has fulfilled, or
\* the 30 s timer has fired first.
close_waited(c) ==
    /\ c.pc = "wait"
    /\ CloseFromCleanup(c)
    /\ UNCHANGED <<fixVars, regVars, subscriptions, made, tasks, starts, pubs, netVars,
                   log, last, lastPub, dispVars>>

\* close() resumes in its catch block because a subscription.close() has
\* rejected before the timer fired: throws 'Failed to close message bus: ...'
close_waitRejected(c) ==
    /\ c.pc = "wait"
    /\ Len(subscriptions[c.bus]) > 0
    /\ CanFail
    /\ faults' = faults + 1
    /\ closes' = closes \ {c}
    /\ hist' = [hist EXCEPT ![c.bus] = Append(@, "close_failed")]
    /\ UNCHANGED <<fixVars, regVars, subscriptions, started, made, tasks, starts, pubs,
                   topics, remoteSubs, objs, clientOpen, msgs, deliveries,
                   log, last, lastPub, dispVars>>

\* topicManager.ts deleteSubscriptions over the targets: each existing
\* subscription is deleted; a failing exists()/delete() is logged and swallowed
\* (failing is the set of targets whose request fails).
deleteSubscriptions(targets, failing) ==
    LET gone == {objs[o].name : o \in Range(targets) \ failing} \cap remoteSubs
    IN  /\ remoteSubs' = remoteSubs \ gone
        /\ deliveries' = {d \in deliveries : d.sub \notin gone}
        /\ objs' = [o \in 1..Len(objs) |->
                      IF o \in Range(targets) \ failing /\ objs[o].name \in remoteSubs
                      THEN [objs[o] EXCEPT !.deleteCalls = @ + 1]
                      ELSE objs[o]]

\* close() resumes from `await deleteSubscriptions(...)`
close_cleaned(c) ==
    /\ c.pc = "cleanup"
    /\ \/ /\ clientOpen[c.bus]
          /\ deleteSubscriptions(c.targets, {})
          /\ UNCHANGED faults
       \/ /\ clientOpen[c.bus]
          /\ CanFail
          /\ \E o \in Range(c.targets) : deleteSubscriptions(c.targets, {o})
          /\ faults' = faults + 1
       \/ /\ ~clientOpen[c.bus]
          /\ deleteSubscriptions(c.targets, Range(c.targets))
          /\ UNCHANGED faults
    /\ CloseFromClient(c)
    /\ UNCHANGED <<fixVars, regVars, subscriptions, made, tasks, starts, pubs,
                   topics, clientOpen, msgs, log, last, lastPub, dispVars>>

\* close() resumes from `await config.pubsub.close()`: started = false
close_clientClosed(c) ==
    /\ c.pc = "client"
    /\ clientOpen' = [clientOpen EXCEPT ![c.bus] = FALSE]
    /\ CloseDone(c)
    /\ UNCHANGED <<fixVars, regVars, subscriptions, made, tasks, starts, pubs,
                   topics, remoteSubs, objs, faults, msgs, deliveries,
                   log, last, lastPub, dispVars>>

\* close() resumes in its catch block because pubsub.close() has rejected.
close_clientRejected(c) ==
    /\ c.pc = "client"
    /\ CanFail
    /\ faults' = faults + 1
    /\ closes' = closes \ {c}
    /\ hist' = [hist EXCEPT ![c.bus] = Append(@, "close_failed")]
    /\ UNCHANGED <<fixVars, regVars, subscriptions, started, made, tasks, starts, pubs,
                   topics, remoteSubs, objs, clientOpen, msgs, deliveries,
                   log, last, lastPub, dispVars>>

(***************************************************************************)
(* Producing (pubsubMessageBus.ts: send, publish, publishMessage)          *)
(***************************************************************************)
\* serialization.ts getMessageKind: the kind written into the envelope
getMessageKind(messageType) ==
    LET typeStr == LowerSeq(TypeWords(messageType))
    IN  IF includes(typeStr, "command") THEN "command" ELSE "event"

PubTopic(p) ==
    IF p.kind = "command"
    THEN getCommandTopicName(p.type, config[p.bus].topicPrefix)
    ELSE getEventTopicName(p.type, config[p.bus].topicPrefix)

\* ensureStarted(): whether it throws
ensureStarted_throws(b) == ~started[b]

\* The call p settles with result r.
Settled(p, r) == [bus |-> p.bus, type |-> p.type, kind |-> p.kind, result |-> r]

\* send(command) / publish(event): publishMessage up to its first await, or
\* the rejection ensureStarted() causes.
publishMessage_call(b, messageType, kind) ==
    LET p == [id |-> made.pubs + 1, bus |-> b, type |-> messageType, kind |-> kind,
              pc |-> "exists"]
    IN  /\ made.pubs < limits.pubs
        /\ made' = [made EXCEPT !.pubs = @ + 1]
        /\ IF ensureStarted_throws(b)
           THEN /\ lastPub' = Settled(p, "not started")
                /\ UNCHANGED pubs
           ELSE /\ pubs' = pubs \cup {p}
                /\ UNCHANGED lastPub
        /\ UNCHANGED <<fixVars, regVars, subscriptions, started, tasks, starts, closes,
                       netVars, log, last, hist, dispVars>>

\* publishMessage resumes from topic.exists()
publishMessage_exists(p) ==
    /\ p.pc = "exists"
    /\ clientOpen[p.bus]
    /\ IF PubTopic(p) \in topics
       THEN pubs' = (pubs \ {p}) \cup {[p EXCEPT !.pc = "publish"]} /\ UNCHANGED lastPub
       ELSE IF config[p.bus].autoCreateResources
       THEN pubs' = (pubs \ {p}) \cup {[p EXCEPT !.pc = "create"]} /\ UNCHANGED lastPub
       ELSE pubs' = pubs \ {p} /\ lastPub' = Settled(p, "topic does not exist")
    /\ UNCHANGED <<fixVars, regVars, subscriptions, started, made, tasks, starts, closes,
                   netVars, log, last, hist, dispVars>>

\* publishMessage resumes from topic.create(): created, or the ALREADY_EXISTS
\* failure of a create that lost the race, which is not absorbed here.
publishMessage_create(p) ==
    /\ p.pc = "create"
    /\ clientOpen[p.bus]
    /\ IF PubTopic(p) \in topics
       THEN /\ pubs' = pubs \ {p}
            /\ lastPub' = Settled(p, "already exists")
            /\ UNCHANGED topics
       ELSE /\ pubs' = (pubs \ {p}) \cup {[p EXCEPT !.pc = "publish"]}
            /\ topics' = topics \cup {PubTopic(p)}
            /\ UNCHANGED lastPub
    /\ UNCHANGED <<fixVars, regVars, subscriptions, started, made, tasks, starts, closes,
                   remoteSubs, objs, clientOpen, faults, msgs, deliveries,
                   log, last, hist, dispVars>>

\* The topic a subscription name belongs to.
TopicOfSub(name) == SubSeq(name, 1, 3)

\* publishMessage resumes from topic.publishMessage(...): the transport has
\* accepted the message and owes one delivery to each subscription of the topic.
publishMessage_published(p) ==
    /\ p.pc = "publish"
    /\ clientOpen[p.bus]
    /\ msgs' = Append(msgs, [type |-> p.type, messageKind |-> p.kind,
                             envelopeKind |-> getMessageKind(p.type),
                             topic |-> PubTopic(p), from |-> p.bus,
                             payload |-> [decodable |-> TRUE, detail |-> <<>>]])
    /\ deliveries' = deliveries \cup
          {[msg |-> Len(msgs) + 1, sub |-> n, attempt |-> 1] :
              n \in {x \in remoteSubs : TopicOfSub(x) = PubTopic(p)}}
    /\ pubs' = pubs \ {p}
    /\ lastPub' = Settled(p, "published")
    /\ UNCHANGED <<fixVars, regVars, subscriptions, started, made, tasks, starts, closes,
                   topics, remoteSubs, objs, clientOpen, faults,
                   log, last, hist, dispVars>>

\* The awaited transport request of publishMessage rejects: the catch block
\* throws 'Failed to publish ...'
publishMessage_fail(p) ==
    /\ \/ /\ clientOpen[p.bus]
          /\ CanFail
          /\ faults' = faults + 1
       \/ /\ ~clientOpen[p.bus]
          /\ UNCHANGED faults
    /\ pubs' = pubs \ {p}
    /\ lastPub' = Settled(p, "transport failure")
    /\ UNCHANGED <<fixVars, regVars, subscriptions, started, made, tasks, starts, closes,
                   topics, remoteSubs, objs, clientOpen, msgs, deliveries,
                   log, last, hist, dispVars>>

(***************************************************************************)
(* Consuming (messageHandler.ts: createMessageListener's callbacks)        *)
(***************************************************************************)
\* What a handler invoked by a listener of a running bus does.
BusOutcomes == {Ok, Thrown(TRUE, FALSE, <<"Network">>), Thrown(TRUE, TRUE, <<"boom">>)}

\* The handler map a listener closes over, as it is when a message arrives.
ListenerMap(o, l) ==
    IF l.map = "shared" THEN handlers[objs[o].bus] ELSE <<[k |-> l.type, v |-> l.hs]>>

\* The 'message' listener: dispatch by kind.
Dispatch(payload, l, map, outs) ==
    IF l.kind = "command"
    THEN handleCommandMessage(payload, map, l.type, outs)
    ELSE handleEventMessage(payload, map, l.type, outs)

\* The transport hands delivery d to a Subscription object o of that
\* subscription that has a 'message' listener; the listener dispatches and
\* acks or nacks; a nacked message is redelivered up to MaxAttempts times.
deliver(d, o) ==
    /\ objs[o].name = d.sub
    /\ Len(objs[o].listeners) > 0
    /\ LET l == objs[o].listeners[1]
           map == ListenerMap(o, l)
           n == Len(MapGetOr(map, l.type, <<>>))
       IN  \E outs \in [1..n -> BusOutcomes] :
             LET r == Dispatch(msgs[d.msg].payload, l, map, outs)
             IN  /\ log' = log \cup {[msg |-> d.msg, sub |-> d.sub, attempt |-> d.attempt,
                                      bus |-> objs[o].bus, after |-> hist[objs[o].bus],
                                      invoked |-> r.invoked, result |-> r.result]}
                 /\ deliveries' =
                       IF r.result = "nack" /\ d.attempt < MaxAttempts
                       THEN (deliveries \ {d}) \cup {[d EXCEPT !.attempt = @ + 1]}
                       ELSE deliveries \ {d}
    /\ UNCHANGED <<fixVars, regVars, subscriptions, started, made, tasks, starts, closes, pubs,
                   topics, remoteSubs, objs, clientOpen, faults, msgs,
                   last, lastPub, hist, dispVars>>

(***************************************************************************)
(* The bus and its transport                                               *)
(***************************************************************************)
Register ==
    \E b \in buses, ts \in ArgLists :
        \/ handle(b, HandlerOfCall(made.regs + 1), ts)
        \/ subscribe(b, HandlerOfCall(made.regs + 1), ts)

StartCall == \E b \in buses : start_call(b)

CloseCall == \E b \in buses : close_call(b)

ProduceCall == \E b \in buses, t \in Types, k \in Kinds : publishMessage_call(b, t, k)

Provision ==
    \E t \in tasks :
        \/ getOrCreateTopic_exists(t)
        \/ getOrCreateTopic_create(t)
        \/ getOrCreateSubscription_exists(t)
        \/ getOrCreateSubscription_create(t)

StartStep == \E c \in starts : start_resolve(c)

CloseStep ==
    \E c \in closes :
        \/ close_waited(c)
        \/ close_cleaned(c)
        \/ close_clientClosed(c)

ProduceStep ==
    \E p \in pubs :
        \/ publishMessage_exists(p)
        \/ publishMessage_create(p)
        \/ publishMessage_published(p)

Consume == \E d \in deliveries, o \in 1..Len(objs) : deliver(d, o)

\* The continuations and the transport, whoever made the calls.
Run == Provision \/ StartStep \/ CloseStep \/ ProduceStep \/ Consume

\* The caller awaits every start(), close(), send() and publish() it makes.
Awaited == starts = {} /\ closes = {} /\ pubs = {}

\* Configurations a bus is constructed with.
Configs(cleanups, closeClients) ==
    [autoCreateResources : {TRUE}, cleanupOnClose : cleanups,
     closePubSubClient : closeClients, topicPrefix : {Prefix}]

\* The scheduler right after new MessageScheduler(config), useEmulator being
\* one of emulators.
SchedulerInit(emulators) ==
    /\ useEmulator \in emulators
    /\ pendingMessages = <<>>
    /\ clock = 0
    /\ scheduled = <<>>
    /\ dequeued = <<>>
    /\ scheduledTopic = FALSE
    /\ scheduling = {}
    /\ settled = <<>>

NoIsolated == dIn = NoDispatch /\ dOut = NoDispatch /\ SchedulerInit({FALSE})

\* Lifecycle of one bus with producing and consuming, no transport failure.
Init ==
    /\ InitBuses({"i1"}, Configs(BOOLEAN, {"false"}),
                 [regs |-> MaxCycleRegs, args |-> MaxArgs, starts |-> MaxStarts, closes |-> MaxCloses,
                  pubs |-> MaxPubs, faults |-> 0])
    /\ NoIsolated

Next ==
    \/ Awaited /\ Register
    \/ Awaited /\ StartCall
    \/ Awaited /\ CloseCall
    \/ Awaited /\ ProduceCall
    \/ Run

Spec == Init /\ [][Next]_vars

\* Registration and routing of one bus that is started once and never closed.
InitRouting ==
    /\ InitBuses({"i1"}, Configs({FALSE}, {"false"}),
                 [regs |-> MaxRegs, args |-> MaxArgs, starts |-> 1, closes |-> 0,
                  pubs |-> MaxPubs, faults |-> 0])
    /\ NoIsolated

NextRouting ==
    \/ Awaited /\ Register
    \/ Awaited /\ StartCall
    \/ Awaited /\ ProduceCall
    \/ Provision \/ StartStep \/ ProduceStep \/ Consume

SpecRouting == InitRouting /\ [][NextRouting]_vars

\* Lifecycle of one bus whose transport requests can fail, nothing produced.
InitFaults ==
    /\ InitBuses({"i1"}, Configs(BOOLEAN, {"undefined", "true", "false"}),
                 [regs |-> MaxCycleRegs, args |-> MaxArgs, starts |-> MaxStarts, closes |-> MaxCloses,
                  pubs |-> 0, faults |-> MaxFaults])
    /\ NoIsolated

NextFaults ==
    \/ Awaited /\ Register
    \/ Awaited /\ StartCall
    \/ Awaited /\ CloseCall
    \/ Provision \/ StartStep \/ CloseStep
    \/ \E t \in tasks : Provision_fail(t)
    \/ \E c \in starts : start_reject(c)
    \/ \E c \in closes : close_waitRejected(c) \/ close_clientRejected(c)

SpecFaults == InitFaults /\ [][NextFaults]_vars

\* Several buses on one transport, each started once.
InitInstances ==
    /\ InitBuses(Inst, Configs({FALSE}, {"false"}),
                 [regs |-> MaxRegs, args |-> 1, starts |-> MaxStarts, closes |-> 0,
                  pubs |-> MaxPubs, faults |-> 0])
    /\ NoIsolated

SpecInstances == InitInstances /\ [][NextRouting]_vars

(***************************************************************************)
(* Dispatch in isolation: handleCommandMessage on one message              *)
(***************************************************************************)
\* The values a handler can throw: a non-Error value, or an Error or
\* EmmettError whose message is made of up to MaxWords fragments.
ThrownValues ==
    {Thrown(FALSE, FALSE, <<>>)}
        \cup {Thrown(TRUE, e, m) : e \in BOOLEAN, m \in SeqsUpTo(Words, MaxWords)}

\* What an invoked handler does.
Outcomes == {Ok} \cup ThrownValues

\* message.data: decodable, or not, with the detail the parser reports.
Payloads ==
    {[decodable |-> TRUE, detail |-> <<>>]}
        \cup {[decodable |-> FALSE, detail |-> d] : d \in SeqsUpTo(Words, 1)}

\* The command types dispatched in isolation.
DispatchedCommands == {"AddItemCommand", "MarkUnavailable"}

\* The handlers map holding the list hs for messageType.
MapOf(messageType, hs) == IF hs = <<>> THEN <<>> ELSE <<[k |-> messageType, v |-> hs]>>

InitDispatch ==
    /\ InitBuses({}, Configs({FALSE}, {"false"}),
                 [regs |-> 0, args |-> 0, starts |-> 0, closes |-> 0, pubs |-> 0, faults |-> 0])
    /\ dIn \in [kind : {"command"}, type : DispatchedCommands,
                 list : SeqsUpTo(Handlers, 2), payload : Payloads, out : Outcomes]
    /\ dOut = NoDispatch
    /\ SchedulerInit({FALSE})

\* handleCommandMessage(message, handlers, commandType) runs to its return.
handleCommandMessage_call ==
    /\ dIn.kind = "command"
    /\ dOut = NoDispatch
    /\ LET r == handleCommandMessage(dIn.payload, MapOf(dIn.type, dIn.list), dIn.type,
                                     [i \in 1..Len(dIn.list) |-> dIn.out])
       IN  dOut' = [kind |-> "command", result |-> r.result, invoked |-> r.invoked]
    /\ UNCHANGED <<fixVars, regVars, subscriptions, started, made, tasks, starts, closes, pubs,
                   netVars, ghostVars, dIn, schedVars>>

NextDispatch == handleCommandMessage_call

SpecDispatch == InitDispatch /\ [][NextDispatch]_vars

(***************************************************************************)
(* Command exclusivity                                                     *)
(***************************************************************************)
\* The step is a handle() call made on bus b.
IsHandleStep(b) == made'.regs = made.regs + 1 /\ last'.op = "handle" /\ last'.bus = b

\* C1: whether the bus is started or not, a handle() call naming a type that
\* an earlier handle() call registered throws, and the handler list stored
\* for that type is after the call what it was before it.
C1_DuplicateHandleThrows ==
    [][\A b \in buses : \A T \in commandTypes[b] :
          (IsHandleStep(b) /\ T \in Range(last'.types))
              => /\ last'.threw
                 /\ MapGet(handlers'[b], T) = MapGet(handlers[b], T)
                 /\ T \in commandTypes'[b]]_vars

\* C1 case: a handle() call on a started bus has thrown on a type whose
\* stored handler is the one an earlier call registered.
C1_Witness ==
    /\ last.op = "handle" /\ last.threw
    /\ started[last.bus]
    /\ \E T \in Range(last.types) \cap commandTypes[last.bus] :
          /\ Len(MapGet(handlers[last.bus], T)) = 1
          /\ MapGet(handlers[last.bus], T)[1] # last.handler

\* C2: whatever handle() and subscribe() calls have been made, the handler
\* list of every type recorded as a command type has length exactly 1.
C2_CommandListLengthOne ==
    \A b \in buses : \A T \in commandTypes[b] :
        MapHas(handlers[b], T) /\ Len(MapGet(handlers[b], T)) = 1

(***************************************************************************)
(* Routing                                                                 *)
(***************************************************************************)
\* The buses whose listeners have invoked a handler for message m.
Consumers(m) == {e.bus : e \in {x \in log : x.msg = m /\ x.invoked # <<>>}}

\* C3: a command sent once is processed by at most one of the bus instances
\* that registered a handler for its type.
C3_OneConsumerPerCommand ==
    \A m \in 1..Len(msgs) :
        msgs[m].messageKind = "command" => Cardinality(Consumers(m)) <= 1

\* C5: a send() or publish() made on a bus on which start() was never called
\* publishes the message: it does not fail for want of a start.
C5_ProducerOnly ==
    (lastPub.result # "none" /\ made.starts = 0) => lastPub.result = "published"

\* The subscription ids subscribe() has generated for type T on bus b, one
\* per registration.
SubIdsOf(b, T) == MapGetOr(eventSubscriptionIds[b], T, <<>>)

\* The Subscription objects bus b tracks for the subscription named n that
\* have a 'message' listener attached.
Listening(b, n) ==
    {o \in Range(Tracked(b)) : objs[o].name = n /\ Len(objs[o].listeners) > 0}

\* Bus b is started and none of its provisioning is in flight.
ProvisioningComplete(b) ==
    /\ started[b]
    /\ ~\E t \in tasks : t.bus = b
    /\ ~\E c \in starts : c.bus = b

\* C4: for a type T registered through subscribe() only, with N
\* registrations: once the bus is started and provisioning is complete, the
\* N registrations have N distinct subscriptions on T's topic, each with one
\* attached listener; and every delivery on a registration's subscription
\* invokes that registration's handler once and no other handler.
C4_EventFanOut ==
    \A b \in buses : \A T \in eventTypes[b] \ commandTypes[b] :
        LET ids == SubIdsOf(b, T)
            name(k) == getEventSubscriptionName(T, ids[k], config[b].topicPrefix)
        IN  /\ ProvisioningComplete(b) =>
                /\ \A j, k \in 1..Len(ids) : j # k => name(j) # name(k)
                /\ \A k \in 1..Len(ids) :
                      /\ name(k) \in remoteSubs
                      /\ TopicOfSub(name(k)) = getEventTopicName(T, config[b].topicPrefix)
                      /\ Cardinality(Listening(b, name(k))) = 1
                      /\ \A o \in Listening(b, name(k)) : Len(objs[o].listeners) = 1
            /\ \A k \in 1..Len(ids) : \A e \in log :
                  e.sub = name(k) => e.invoked = <<MapGet(subscriptionHandlers[b], ids[k])>>

\* C4 case: two subscribe() calls registered different handlers for one
\* type, the bus is started with provisioning complete, and one published
\* message has been delivered on both subscriptions.
C4_Witness ==
    \E b \in buses : \E T \in eventTypes[b] \ commandTypes[b] :
        LET ids == SubIdsOf(b, T)
        IN  /\ ProvisioningComplete(b)
            /\ Len(ids) = 2
            /\ MapGet(subscriptionHandlers[b], ids[1]) # MapGet(subscriptionHandlers[b], ids[2])
            /\ \E m \in 1..Len(msgs) : \A k \in 1..2 : \E e \in log :
                  /\ e.msg = m
                  /\ e.sub = getEventSubscriptionName(T, ids[k], config[b].topicPrefix)
                  /\ e.invoked = <<MapGet(subscriptionHandlers[b], ids[k])>>

(***************************************************************************)
(* Lifecycle                                                               *)
(***************************************************************************)
\* The step is a start() call, or a close() call, made on bus b.
IsStartStep(b) == made'.starts = made.starts + 1 /\ last'.op = "start" /\ last'.bus = b

IsCloseStep(b) == made'.closes = made.closes + 1 /\ last'.op = "close" /\ last'.bus = b

\* The start() and close() calls among the calls h, as they settled.
Lifecycle(h) == SelectSeq(h, LAMBDA x : x \notin {"handle", "handle_threw", "subscribe"})

\* The subscriptions the registrations of bus b call for: one per type
\* registered through handle() only, one per subscribe() registration of a
\* type registered through subscribe() only.
RegisteredSubs(b) ==
    {getCommandSubscriptionName(T, b, config[b].topicPrefix) :
        T \in commandTypes[b] \ eventTypes[b]}
    \cup UNION {{getEventSubscriptionName(T, id, config[b].topicPrefix) :
                    id \in Range(SubIdsOf(b, T))} : T \in eventTypes[b] \ commandTypes[b]}

\* Each registered subscription of bus b has exactly one Subscription object
\* with a listener, and that object has one 'message' listener.
OneListenerEach(b) ==
    \A n \in RegisteredSubs(b) :
        /\ Cardinality(Listening(b, n)) = 1
        /\ \A o \in Listening(b, n) : Len(objs[o].listeners) = 1

\* Bus b was started once, every later start() found it started, and no
\* close() of a started bus has been called since.
StartedAndRestarted(b) ==
    LET l == Lifecycle(hist[b])
    IN  /\ Range(l) \subseteq {"close_skipped", "start_ok", "start_skipped"}
        /\ "start_ok" \in Range(l)
        /\ "start_skipped" \in Range(l)
        /\ ~\E c \in closes : c.bus = b

StartSubs(b) == {SubNameOf(t) : t \in StartTasks(b, 0)}

\* Task t of a start() call ends in this step without a subscription handle
\* being tracked: its provisioning has failed.
ProvisioningFails(t) ==
    /\ t.call # 0
    /\ ~\E u \in tasks' : [u EXCEPT !.pc = t.pc] = t
    /\ subscriptions' = subscriptions

\* C7: a bus becomes started only in the step that settles a start() call
\* none of whose provisioning failed, and then every subscription that call
\* provisions exists and has a listener attached; when the provisioning of one
\* subscription fails the call is marked failed, a failed call settles as a
\* rejection ('Failed to start message bus') with the bus still not started,
\* and the bus stays not started until another start() is made.
C7_StartAllOrNothing ==
    /\ [][\A b \in buses :
            /\ (~started[b] /\ started'[b]) =>
                  /\ \E c \in starts : c.bus = b /\ ~c.failed /\ c \notin starts'
                  /\ \A n \in StartSubs(b) : n \in remoteSubs /\ Listening(b, n) # {}
            /\ \A t \in tasks : (t.bus = b /\ ProvisioningFails(t)) =>
                  \A c \in starts' : c.id = t.call => c.failed
            /\ \A c \in starts : (c.bus = b /\ c.failed) =>
                  /\ \A d \in starts' : d.id = c.id => d.failed
                  /\ c \notin starts' =>
                        /\ ~started'[b]
                        /\ hist'[b] = Append(hist[b], "start_failed")]_vars
    /\ [](\A c \in starts : ~started[c.bus])
    /\ [](\A b \in buses :
            LET l == Lifecycle(hist[b])
            IN  (l # <<>> /\ l[Len(l)] = "start_failed") => ~started[b])

\* C7 case: a start() whose provisioning failed was rejected, and a later
\* start() provisioning at least two subscriptions has succeeded.
C7_Witness ==
    \E b \in buses :
        /\ Lifecycle(hist[b]) = <<"start_failed", "start_ok">>
        /\ started[b]
        /\ Cardinality(StartSubs(b)) >= 2

\* C8: a close() call made on a started bus that has settled has resolved,
\* whatever failed during its cleanup, and has left the bus not started.
C8_CloseSwallowsFailures ==
    \A b \in buses :
        LET l == Lifecycle(hist[b])
        IN  (l # <<>> /\ l[Len(l)] \in {"close_ok", "close_failed"}) =>
                l[Len(l)] = "close_ok" /\ ~started[b]

\* The calls h are registrations followed by start(), close(), start(), each
\* of which took effect and succeeded.
Restarted(h) ==
    /\ Len(h) >= 3
    /\ SubSeq(h, Len(h) - 2, Len(h)) = <<"start_ok", "close_ok", "start_ok">>
    /\ Len(Lifecycle(h)) = 3

\* C9: with closePubSubClient false, after registrations followed by
\* start(), close(), start() the bus is started, every registered
\* subscription exists and has exactly one attached listener, and every
\* delivery of a command made then to a type registered through handle()
\* only invokes the handler of that type once.
C9_Restart ==
    \A b \in buses :
        /\ ( /\ Restarted(hist[b])
             /\ config[b].closePubSubClient = "false"
             /\ ~\E c \in closes : c.bus = b ) =>
                /\ started[b]
                /\ RegisteredSubs(b) \subseteq remoteSubs
                /\ OneListenerEach(b)
        /\ \A e \in log :
              ( /\ e.bus = b
                /\ Restarted(e.after)
                /\ config[b].closePubSubClient = "false"
                /\ msgs[e.msg].messageKind = "command"
                /\ msgs[e.msg].type \in commandTypes[b] \ eventTypes[b] ) =>
                    /\ Len(MapGet(handlers[b], msgs[e.msg].type)) = 1
                    /\ e.invoked = <<MapGet(handlers[b], msgs[e.msg].type)[1]>>

\* C9 case: a bus with two registered subscriptions was started, closed and
\* started again, and a command delivered after that has invoked its handler.
C9_Witness ==
    \E b \in buses :
        /\ Restarted(hist[b])
        /\ started[b]
        /\ Cardinality(RegisteredSubs(b)) >= 2
        /\ \E e \in log :
              /\ e.bus = b
              /\ Restarted(e.after)
              /\ msgs[e.msg].messageKind = "command"
              /\ msgs[e.msg].type \in commandTypes[b] \ eventTypes[b]
              /\ e.invoked = <<MapGet(handlers[b], msgs[e.msg].type)[1]>>

(***************************************************************************)
(* Acknowledgement of a dispatched command                                 *)
(***************************************************************************)
\* Markers of a transient failure: those the specification names, and those
\* shouldRetry tests for.
NamedRetryMarkers == {"network", "timeout", "unavailable"}

RetryMarkers == NamedRetryMarkers \cup {"econnrefused", "enotfound"}

BusinessMarkers == {"validation", "invalid", "not found", "already exists"}

\* The thrown value e is an Error whose message contains, in any letter
\* case, one of the markers.
Marked(e, markers) ==
    e.isError /\ \E w \in markers : includes(LowerSeq(e.message), w)

\* The thrown value e is classified as a business/validation error: an
\* EmmettError, or an Error with a business marker.
Business(e) == e.isError /\ (e.isEmmett \/ Marked(e, BusinessMarkers))

\* The result the classification calls for when the handler's outcome is e,
\* the transient markers being `markers`.
Expected(e, markers) ==
    IF ~e.thrown THEN "ack"
    ELSE IF Marked(e, markers) THEN "nack"
    ELSE IF Business(e) THEN "ack"
    ELSE "nack"

\* A dispatch of a decodable command to a type with exactly one handler whose
\* outcome matches at most one of the two marker classes.
OneHandlerDispatch(markers) ==
    /\ dOut.kind = "command"
    /\ Len(dIn.list) = 1
    /\ dIn.payload.decodable
    /\ ~(Marked(dIn.out, markers) /\ Business(dIn.out))

MaxList == 2        \* handlers in the list of an event type

\* What a handler of an event type does when invoked.
EventOutcomes ==
    {Ok, Thrown(FALSE, FALSE, <<>>), Thrown(TRUE, FALSE, <<"Network">>),
     Thrown(TRUE, FALSE, <<"Validation">>), Thrown(TRUE, TRUE, <<"boom">>),
     Thrown(TRUE, FALSE, <<"boom">>)}

\* The arguments of a handleCommandMessage call, with what its handler does.
CommandInputs ==
    [kind : {"command"}, type : DispatchedCommands,
     list : SeqsUpTo(Handlers, 2), payload : Payloads, out : Outcomes]

\* The arguments of a handleEventMessage call, with what each handler of the
\* list does; emptyEntry tells an empty list stored for the type from no list.
EventInputs ==
    UNION {[kind : {"event"}, type : {"ItemAdded"}, list : {l}, payload : Payloads,
            emptyEntry : IF l = <<>> THEN BOOLEAN ELSE {FALSE},
            outs : [1..Len(l) -> EventOutcomes]] : l \in SeqsUpTo(Handlers, MaxList)}

\* The handlers map of an event dispatch.
EventMap(in) ==
    IF in.emptyEntry THEN <<[k |-> in.type, v |-> <<>>]>> ELSE MapOf(in.type, in.list)

\* handleEventMessage has returned result after invoking the handlers invoked.
Returned(result, i, invoked) ==
    [kind |-> "event", pc |-> "returned", i |-> i, invoked |-> invoked, result |-> result]

\* The for loop of handleEventMessage reaching position i: the i-th handler
\* is invoked and awaited, or the loop is over and the call returns ack.
EnterLoop(eventHandlers, i, invoked) ==
    IF i > Len(eventHandlers) THEN Returned("ack", i, invoked)
    ELSE [kind |-> "event", pc |-> "awaiting", i |-> i,
          invoked |-> Append(invoked, eventHandlers[i]), result |-> "none"]

\* The catch block of the loop being stricter: any thrown value ends the walk.
AfterHandler_stopOnAny(eventHandlers, i, invoked, out) ==
    IF out.thrown THEN Returned(ClassifyCaught(out), i, invoked)
    ELSE EnterLoop(eventHandlers, i + 1, invoked)

\* The catch block of the loop never returning: the walk goes on after a
\* retriable error.
AfterHandler_noStop(eventHandlers, i, invoked, out) ==
    EnterLoop(eventHandlers, i + 1, invoked)

\* The loop body after `await handler(event)` has settled with out.
AfterHandler(eventHandlers, i, invoked, out) ==
    IF out.thrown /\ shouldRetry(out) THEN Returned("nack", i, invoked)
    ELSE EnterLoop(eventHandlers, i + 1, invoked)

\* handleEventMessage decoding before it looks at the handler list.
BeforeLoop_decodeFirst(payload, eventHandlers) ==
    IF deserialize(payload).thrown
    THEN Returned(ClassifyCaught(deserialize(payload)), 0, <<>>)
    ELSE IF Len(eventHandlers) = 0 THEN Returned("ack", 0, <<>>)
    ELSE EnterLoop(eventHandlers, 1, <<>>)

\* handleEventMessage up to its first await, or to its return.
BeforeLoop(payload, eventHandlers) ==
    IF Len(eventHandlers) = 0 THEN Returned("ack", 0, <<>>)
    ELSE IF deserialize(payload).thrown
    THEN Returned(ClassifyCaught(deserialize(payload)), 0, <<>>)
    ELSE EnterLoop(eventHandlers, 1, <<>>)

InitInbound ==
    /\ InitBuses({}, Configs({FALSE}, {"false"}),
                 [regs |-> 0, args |-> 0, starts |-> 0, closes |-> 0, pubs |-> 0, faults |-> 0])
    /\ dIn \in CommandInputs \cup EventInputs
    /\ dOut = NoDispatch
    /\ SchedulerInit({FALSE})

\* handleEventMessage(message, handlers, eventType) is called.
handleEventMessage_call ==
    /\ dIn.kind = "event"
    /\ dOut = NoDispatch
    /\ dOut' = BeforeLoop(dIn.payload, MapGetOr(EventMap(dIn), dIn.type, <<>>))
    /\ UNCHANGED <<fixVars, regVars, subscriptions, started, made, tasks, starts, closes, pubs,
                   netVars, ghostVars, dIn, schedVars>>

\* handleEventMessage resumes from `await handler(event)`.
handleEventMessage_settled ==
    /\ dIn.kind = "event"
    /\ dOut.kind = "event"
    /\ dOut.pc = "awaiting"
    /\ dOut' = AfterHandler(MapGetOr(EventMap(dIn), dIn.type, <<>>), dOut.i, dOut.invoked,
                            dIn.outs[dOut.i])
    /\ UNCHANGED <<fixVars, regVars, subscriptions, started, made, tasks, starts, closes, pubs,
                   netVars, ghostVars, dIn, schedVars>>

NextInbound ==
    \/ handleCommandMessage_call
    \/ handleEventMessage_call
    \/ handleEventMessage_settled

SpecInbound == InitInbound /\ [][NextInbound]_vars

(***************************************************************************)
(* Commands without exactly one handler                                    *)
(***************************************************************************)
\* handleCommandMessage has returned for a type whose list has n handlers.
CommandReturned(n) == dOut.kind = "command" /\ dIn.kind = "command" /\ Len(dIn.list) = n

\* C11: a command delivered for a type that has zero handlers is nacked, and
\* no handler is invoked.
C11_NoHandlerNacks ==
    CommandReturned(0) => (dOut.result = "nack" /\ dOut.invoked = <<>>)

\* C12: handleCommandMessage returns ack without invoking any handler when
\* the command type has zero or more than one handler.
C12_NotExactlyOneAcks ==
    (CommandReturned(0) \/ CommandReturned(2)) => (dOut.result = "ack" /\ dOut.invoked = <<>>)

(***************************************************************************)
(* Undecodable payloads                                                    *)
(***************************************************************************)
\* A dispatch of either kind has returned.
DispatchReturned ==
    \/ dOut.kind = "command"
    \/ dOut.kind = "event" /\ dOut.pc = "returned"

\* The dispatched type has the handlers its kind needs for the payload to be
\* decoded: exactly one for a command, at least one for an event.
HandlersRegistered ==
    IF dIn.kind = "command" THEN Len(dIn.list) = 1 ELSE Len(dIn.list) >= 1

\* C13: on the command path and on the event path alike, when handlers are
\* registered, a payload that cannot be decoded is nacked whatever the
\* detail of the parse failure is, and no handler is invoked.
C13_UndecodableNacks ==
    (DispatchReturned /\ HandlersRegistered /\ ~dIn.payload.decodable)
        => (dOut.result = "nack" /\ dOut.invoked = <<>>)

(***************************************************************************)
(* The walk of an event's handlers                                         *)
(***************************************************************************)
\* The handlers a dispatch has invoked so far.
InvokedBy(d) == IF d.kind = "event" THEN d.invoked ELSE <<>>

\* handleEventMessage walks the list: handlers exist and the payload decodes.
Walking == dIn.kind = "event" /\ dIn.list # <<>> /\ dIn.payload.decodable

\* The i-th handler of the list throws an error that shouldRetry retries.
ThrowsRetriable(i) == dIn.outs[i].thrown /\ shouldRetry(dIn.outs[i])

\* The i-th handler of the list throws an error that shouldRetry gives up on.
ThrowsPermanent(i) == dIn.outs[i].thrown /\ ~shouldRetry(dIn.outs[i])

\* handleEventMessage has returned.
EventReturned == dOut.kind = "event" /\ dOut.pc = "returned"

\* C14: handleEventMessage invokes the handlers of the list one at a time in
\* list order: handler i+1 is invoked only by the step in which handler i
\* settles, and when handler i throws a retriable error the call returns
\* nack at once, with none of the handlers after i invoked.
C14_SequentialWalk ==
    /\ [][(Walking /\ dOut' # dOut) =>
            /\ dOut'.invoked = SubSeq(dIn.list, 1, Len(dOut'.invoked))
            /\ Len(dOut'.invoked) <= Len(InvokedBy(dOut)) + 1
            /\ (dOut.kind = "event" /\ Len(dOut'.invoked) = Len(dOut.invoked) + 1)
                   => (dOut.pc = "awaiting" /\ dOut.i = Len(dOut.invoked))
            /\ (dOut.kind = "event" /\ ThrowsRetriable(dOut.i))
                   => (dOut'.pc = "returned" /\ dOut'.result = "nack"
                                             /\ dOut'.invoked = dOut.invoked)]_vars
    /\ [](Walking /\ EventReturned
             => \A i \in 1..Len(dIn.list) :
                    (ThrowsRetriable(i) /\ \A j \in 1..(i - 1) : ~ThrowsRetriable(j))
                        => (dOut.result = "nack" /\ Len(dOut.invoked) = i))

C14_Witness ==
    /\ Walking /\ EventReturned
    /\ Len(dIn.list) = 2
    /\ ThrowsRetriable(1)
    /\ dOut.result = "nack"
    /\ dOut.invoked = <<dIn.list[1]>>

\* C15: a handler that throws a non-retriable error does not stop the walk:
\* when no handler of the list throws a retriable error, the call returns
\* ack after every handler of the list has been invoked exactly once.
C15_PermanentErrorsContinue ==
    (Walking /\ EventReturned /\ \A i \in 1..Len(dIn.list) : ~ThrowsRetriable(i))
        => (dOut.result = "ack" /\ dOut.invoked = dIn.list)

C15_Witness ==
    /\ Walking /\ EventReturned
    /\ Len(dIn.list) = 2
    /\ ThrowsPermanent(1)
    /\ ~ThrowsRetriable(2)
    /\ dOut.result = "ack"
    /\ dOut.invoked = dIn.list

C17_EmmettErrorNeverRetried ==
    (CommandReturned(1) /\ dIn.payload.decodable /\ dIn.out.thrown /\ dIn.out.isEmmett)
        => (~shouldRetry(dIn.out) /\ dOut.result = "ack")

(***************************************************************************)
(* The listener of a subscription (createMessageListener)                  *)
(***************************************************************************)
MaxErrorEvents == 2     \* 'error' events a subscription emits

\* A listener that has received nothing yet.
IdleListener ==
    [kind |-> "listener", pc |-> "idle", result |-> "none", acks |-> 0, nacks |-> 0, logged |-> 0]

\* What `await handleCommandMessage(...)` / `await handleEventMessage(...)`
\* gives the message callback.
Dispatched(in) ==
    IF in.kind = "command"
    THEN handleCommandMessage(in.payload, MapOf(in.type, in.list), in.type,
                              [i \in 1..Len(in.list) |-> in.out])
    ELSE handleEventMessage(in.payload, EventMap(in), in.type, in.outs)

\* The thrown values shouldRetry is given during the dispatch of in: the
\* values thrown by the handlers invoked.
Classified(in) ==
    IF in.kind = "command"
    THEN {in.out : i \in {j \in 1..Len(Dispatched(in).invoked) : in.out.thrown}}
    ELSE {in.outs[i] : i \in {j \in 1..Len(Dispatched(in).invoked) : in.outs[j].thrown}}

\* The dispatch can reject instead of returning: the caught value is an Error
\* whose message is not a string, and `error.message.toLowerCase()` throws
\* inside the catch block of the dispatch.
CanReject(in) == \E e \in Classified(in) : e.isError

\* The message callback calling message.ack() whatever the result is.
Settle_alwaysAck(d) ==
    [d EXCEPT !.pc = "done", !.acks = @ + 1, !.nacks = IF d.result = "ack" THEN @ ELSE @ + 1]

\* The message callback after the dispatch settled: message.ack() when the
\* result is 'ack', message.nack() otherwise or when the dispatch rejected.
Settle(d) ==
    IF d.result = "ack" THEN [d EXCEPT !.pc = "done", !.acks = @ + 1]
    ELSE [d EXCEPT !.pc = "done", !.nacks = @ + 1]

InitListener ==
    /\ InitBuses({}, Configs({FALSE}, {"false"}),
                 [regs |-> 0, args |-> 0, starts |-> 0, closes |-> 0, pubs |-> 0, faults |-> 0])
    /\ dIn \in CommandInputs \cup EventInputs
    /\ dOut = IdleListener
    /\ SchedulerInit({FALSE})

\* The subscription emits 'message': the callback runs the dispatch.
listener_message ==
    /\ dOut.kind = "listener"
    /\ dOut.pc = "idle"
    /\ \E rejects \in (IF CanReject(dIn) THEN BOOLEAN ELSE {FALSE}) :
          dOut' = [dOut EXCEPT !.pc = "dispatched",
                               !.result = IF rejects THEN "rejected" ELSE Dispatched(dIn).result]
    /\ UNCHANGED <<fixVars, regVars, subscriptions, started, made, tasks, starts, closes, pubs,
                   netVars, ghostVars, dIn, schedVars>>

\* The callback resumes from its await and settles the message.
listener_settle ==
    /\ dOut.kind = "listener"
    /\ dOut.pc = "dispatched"
    /\ dOut' = Settle(dOut)
    /\ UNCHANGED <<fixVars, regVars, subscriptions, started, made, tasks, starts, closes, pubs,
                   netVars, ghostVars, dIn, schedVars>>

\* The subscription emits 'error': the callback logs it.
listener_error ==
    /\ dOut.kind = "listener"
    /\ dOut.logged < MaxErrorEvents
    /\ dOut' = [dOut EXCEPT !.logged = @ + 1]
    /\ UNCHANGED <<fixVars, regVars, subscriptions, started, made, tasks, starts, closes, pubs,
                   netVars, ghostVars, dIn, schedVars>>

NextListener ==
    \/ listener_message
    \/ listener_settle
    \/ listener_error

SpecListener == InitListener /\ [][NextListener]_vars

\* C18: for a message delivered to a listener, once the dispatch has settled
\* exactly one of message.ack() and message.nack() is called, exactly once,
\* ack if and only if the dispatch returned 'ack'; nothing is called before,
\* and an 'error' event of the subscription is only logged: it changes
\* neither call count nor the progress of the message.
C18_ExactlyOneAckOrNack ==
    /\ [](dOut.pc = "done"
             => /\ dOut.acks + dOut.nacks = 1
                /\ dOut.acks = 1 <=> dOut.result = "ack"
                /\ dOut.result # "rejected" => dOut.result = Dispatched(dIn).result)
    /\ [](dOut.pc # "done" => (dOut.acks = 0 /\ dOut.nacks = 0))
    /\ [][dOut'.logged # dOut.logged
             => dOut' = [dOut EXCEPT !.logged = dOut'.logged]]_vars

C18_Witness ==
    /\ dOut.kind = "listener" /\ dOut.pc = "done"
    /\ dOut.logged = 1
    /\ dOut.result = "nack"
    /\ dOut.nacks = 1 /\ dOut.acks = 0

(***************************************************************************)
(* The scheduler in buffered mode (scheduler.ts)                           *)
(***************************************************************************)
MaxTime == 2        \* readings of the clock: 0..MaxTime
MaxDelay == 1       \* afterInMs values: -MaxDelay..MaxDelay, and NaN
MaxScheduled == 3   \* schedule() calls per run
MaxDequeues == 3    \* dequeue() calls per run

\* A Date holding the time value t, and the Invalid Date (time value NaN).
DateOf(t) == [valid |-> TRUE, t |-> t]
InvalidDate == [valid |-> FALSE, t |-> 0]

\* A number: n, or NaN.
NumberOf(n) == [nan |-> FALSE, n |-> n]
NaN == [nan |-> TRUE, n |-> 0]

\* a <= b and a > b on Dates: both compare the time values, and every
\* comparison with NaN is false.
DateLe(a, b) == a.valid /\ b.valid /\ a.t <= b.t
DateGt(a, b) == a.valid /\ b.valid /\ a.t > b.t

\* The `when` argument: undefined, { afterInMs }, or { at }.
ScheduleOptions ==
    {[kind |-> "undefined", afterInMs |-> NaN, at |-> InvalidDate]}
        \cup {[kind |-> "afterInMs", afterInMs |-> ms, at |-> InvalidDate] :
                  ms \in {NumberOf(n) : n \in (0 - MaxDelay)..MaxDelay} \cup {NaN}}
        \cup {[kind |-> "at", afterInMs |-> NaN, at |-> d] :
                  d \in {DateOf(t) : t \in 0..MaxTime} \cup {InvalidDate}}

\* calculateScheduledTime(options), new Date() reading now.
calculateScheduledTime(options, now) ==
    CASE options.kind = "undefined" -> DateOf(now)
      [] options.kind = "afterInMs" ->
            IF options.afterInMs.nan THEN InvalidDate ELSE DateOf(now + options.afterInMs.n)
      [] options.kind = "at" -> options.at

\* filterReadyMessages taking an entry for ready only after its instant.
filterReadyMessages_strict(pending, now) ==
    SelectSeq(pending, LAMBDA msg : DateGt(now, msg.scheduledAt))

\* filterReadyMessages(pending, now)
filterReadyMessages(pending, now) ==
    SelectSeq(pending, LAMBDA msg : DateLe(msg.scheduledAt, now))

\* dequeue leaving the entries it returns in the pending list.
StillPending_keepAll(pending, now) == pending

\* this.pendingMessages.filter((msg) => msg.scheduledAt > now)
StillPending(pending, now) ==
    SelectSeq(pending, LAMBDA msg : DateGt(msg.scheduledAt, now))

InitScheduler ==
    /\ InitBuses({}, Configs({FALSE}, {"false"}),
                 [regs |-> 0, args |-> 0, starts |-> 0, closes |-> 0, pubs |-> 0, faults |-> 0,
                  dequeues |-> MaxDequeues])
    /\ dIn = NoDispatch
    /\ dOut = NoDispatch
    /\ SchedulerInit({TRUE})

\* Time passes.
tick ==
    /\ clock < MaxTime
    /\ clock' = clock + 1
    /\ UNCHANGED <<fixVars, regVars, subscriptions, started, made, tasks, starts, closes, pubs,
                   netVars, ghostVars, dIn, dOut, pendingMessages, useEmulator, scheduled,
                   dequeued, nativeVars>>

\* scheduler.schedule(message, options) in buffered mode; the message is
\* identified by the rank of the call.
schedule(options) ==
    /\ useEmulator
    /\ Len(scheduled) < MaxScheduled
    /\ LET info == [message |-> Len(scheduled) + 1, options |-> options,
                    scheduledAt |-> calculateScheduledTime(options, clock)]
       IN  /\ pendingMessages' = Append(pendingMessages, info)
           /\ scheduled' = Append(scheduled, [info |-> info, calls |-> Len(dequeued),
                                           now |-> clock])
    /\ UNCHANGED <<fixVars, regVars, subscriptions, started, made, tasks, starts, closes, pubs,
                   netVars, ghostVars, dIn, dOut, useEmulator, clock, dequeued, nativeVars>>

\* scheduler.dequeue()
dequeue ==
    /\ Len(dequeued) < limits.dequeues
    /\ LET now == DateOf(clock)
           ready == IF useEmulator THEN filterReadyMessages(pendingMessages, now) ELSE <<>>
       IN  /\ pendingMessages' = IF useEmulator THEN StillPending(pendingMessages, now)
                                 ELSE pendingMessages
           /\ dequeued' = Append(dequeued,
                                 [now |-> now, before |-> pendingMessages,
                                  after |-> pendingMessages',
                                  returned |-> [i \in 1..Len(ready) |->
                                                   [message |-> ready[i].message,
                                                    options |-> ready[i].options]]])
    /\ UNCHANGED <<fixVars, regVars, subscriptions, started, made, tasks, starts, closes, pubs,
                   netVars, ghostVars, dIn, dOut, useEmulator, clock, scheduled, nativeVars>>

NextScheduler ==
    \/ tick
    \/ \E options \in ScheduleOptions : schedule(options)
    \/ dequeue

SpecScheduler == InitScheduler /\ [][NextScheduler]_vars

\* The messages of a list of entries.
MessagesOf(entries) == {entries[i].message : i \in 1..Len(entries)}

\* The dequeue() calls, by rank, that returned message m.
ReturnedBy(m) == {k \in 1..Len(dequeued) : m \in MessagesOf(dequeued[k].returned)}

\* How many times message m has been returned by dequeue() calls so far.
TimesReturned(m) ==
    Cardinality({ki \in UNION {{<<k, i>> : i \in 1..Len(dequeued[k].returned)} :
                                  k \in 1..Len(dequeued)} :
                     dequeued[ki[1]].returned[ki[2]].message = m})

\* The entries pending before the k-th dequeue() call that were due at it.
DueAt(k) ==
    {dequeued[k].before[i].message :
        i \in {j \in 1..Len(dequeued[k].before) :
                   DateLe(dequeued[k].before[j].scheduledAt, dequeued[k].now)}}

\* C19: in buffered mode, for every sequence of schedule() and dequeue()
\* calls and every `when` input, each dequeue() returns exactly the pending
\* entries whose resolved instant is at or before the time of the call and
\* removes exactly those from the pending set; at all times every scheduled
\* entry is either still pending or has been returned by exactly one
\* dequeue() call: none is returned twice and none is lost.
C19_DequeueExactNoLoss ==
    /\ \A k \in 1..Len(dequeued) :
          /\ MessagesOf(dequeued[k].returned) = DueAt(k)
          /\ MessagesOf(dequeued[k].after) = MessagesOf(dequeued[k].before) \ DueAt(k)
    /\ \A m \in 1..Len(scheduled) :
          \/ m \in MessagesOf(pendingMessages) /\ TimesReturned(m) = 0
          \/ m \notin MessagesOf(pendingMessages) /\ TimesReturned(m) = 1

\* The resolved instant of the m-th scheduled entry.
InstantOf(m) == scheduled[m].info.scheduledAt

\* Every entry pending before the k-th dequeue() call was due at it.
PastAll(k) ==
    /\ dequeued[k].before # <<>>
    /\ MessagesOf(dequeued[k].before) = DueAt(k)

\* C20: in buffered mode, the clock never going back, when entry a has an
\* earlier resolved instant than entry b and both are pending, b is not
\* returned by a dequeue() call that precedes the call returning a; and a
\* single dequeue() at a time at or past the instants of all pending entries
\* returns them all, of which the following dequeue() returns none.
C20_ReadyInInstantOrder ==
    /\ \A a, b \in 1..Len(scheduled) :
          (InstantOf(a).valid /\ InstantOf(b).valid /\ InstantOf(a).t < InstantOf(b).t)
              => \A k \in ReturnedBy(b) :
                     scheduled[a].calls < k => \E j \in ReturnedBy(a) : j <= k
    /\ \A k \in 1..Len(dequeued) :
          PastAll(k)
              => /\ MessagesOf(dequeued[k].returned) = MessagesOf(dequeued[k].before)
                 /\ k < Len(dequeued)
                        => MessagesOf(dequeued[k + 1].returned)
                               \cap MessagesOf(dequeued[k].before) = {}

\* C20 case: three entries of distinct instants pending together; a first
\* dequeue() returns the earliest alone, a second one past the other two
\* returns both, and a third returns nothing.
C20_Witness ==
    /\ Len(scheduled) = 3 /\ Len(dequeued) = 3
    /\ \A m \in 1..3 : scheduled[m].calls = 0 /\ InstantOf(m).valid
    /\ InstantOf(1).t > InstantOf(2).t /\ InstantOf(2).t > InstantOf(3).t
    /\ MessagesOf(dequeued[1].returned) = {3}
    /\ PastAll(2)
    /\ MessagesOf(dequeued[2].returned) = {1, 2}
    /\ dequeued[3].returned = <<>>

(***************************************************************************)
(* Entries that are due when scheduled                                     *)
(***************************************************************************)
\* The m-th scheduled entry was due at its schedule() call: no `when`, an
\* afterInMs of zero or less, or an absolute time not later than the call.
DueWhenScheduled(m) ==
    LET options == scheduled[m].info.options
    IN  \/ options.kind = "undefined"
        \/ options.kind = "afterInMs" /\ ~options.afterInMs.nan /\ options.afterInMs.n <= 0
        \/ options.kind = "at" /\ options.at.valid /\ options.at.t <= scheduled[m].now

\* The instant the `when` of the m-th scheduled entry resolves to.
ResolvedInstant(m) ==
    LET options == scheduled[m].info.options
    IN  CASE options.kind = "undefined" -> scheduled[m].now
          [] options.kind = "afterInMs" -> scheduled[m].now + options.afterInMs.n
          [] options.kind = "at" -> options.at.t

MaxNativeCalls == 2     \* schedule() calls per run in native mode
MaxClears == 1          \* clearPending() calls per run
MaxNativeDequeues == 1  \* dequeue() calls per run in native mode

\* The `when` arguments of the native-mode runs: none, a delay, and an
\* absolute time that is not a valid Date.
NativeOptions ==
    {o \in ScheduleOptions :
        \/ o.kind = "undefined"
        \/ o.kind = "afterInMs" /\ o.afterInMs = NumberOf(MaxDelay)
        \/ o.kind = "at" /\ ~o.at.valid}

\* `${this.topicPrefix}-scheduled-messages`
ScheduledTopicName(prefix) == <<prefix, "scheduled-messages">>

\* How the caller made the call: on the MessageScheduler, or through the
\* bus's schedule(message, when).
Vias == {"scheduler", "bus"}

\* Whether the promise of scheduler.schedule() reaches the caller: the
\* bus's schedule() calls scheduler.schedule(message, when) and returns void.
Surfaces(via) == via = "scheduler"

\* Date.prototype.toISOString on a valid Date
toISOString(d) == "ISO" \o ToString(d.t)

\* getPendingCount()
getPendingCount == IF useEmulator THEN Len(pendingMessages) ELSE 0

\* The call c settles: resolved, or rejected with the Error the catch block
\* of publishScheduledMessage throws for cause.
SettleSchedule(c, result, cause) ==
    /\ scheduling' = scheduling \ {c}
    /\ settled' = Append(settled,
                         [id |-> c.id, type |-> c.type, via |-> c.via, result |-> result,
                          error |-> IF result = "rejected"
                                    THEN <<"Failed to publish scheduled message", c.type>> \o cause
                                    ELSE <<>>,
                          surfaced |-> result = "rejected" /\ Surfaces(c.via)])

\* publishScheduledMessage once the topic is known: serialize, build the
\* attributes (toISOString throws on an Invalid Date), call publishMessage.
ToPublish(c) ==
    IF c.scheduledAt.valid
    THEN /\ scheduling' = (scheduling \ {c}) \cup {[c EXCEPT !.pc = "publish"]}
         /\ UNCHANGED settled
    ELSE SettleSchedule(c, "rejected", <<"Invalid time value">>)

\* publishScheduledMessage buffering the message locally as well.
schedule_nativeBuffer(info) == Append(pendingMessages, info)

\* What schedule() leaves in pendingMessages in native mode.
schedule_nativePending(info) == pendingMessages

InitNative ==
    /\ InitBuses({}, Configs({FALSE}, {"false"}),
                 [regs |-> 0, args |-> 0, starts |-> 0, closes |-> 0, pubs |-> 0,
                  faults |-> MaxFaults, dequeues |-> MaxNativeDequeues])
    /\ dIn = NoDispatch
    /\ dOut = NoDispatch
    /\ SchedulerInit({FALSE})

\* scheduler.schedule(message, options) in native mode, up to its first await.
schedule_native(messageType, options, via) ==
    /\ ~useEmulator
    /\ Len(scheduled) < MaxNativeCalls
    /\ LET info == [message |-> Len(scheduled) + 1, options |-> options,
                    scheduledAt |-> calculateScheduledTime(options, clock)]
           c == [id |-> Len(scheduled) + 1, type |-> messageType, via |-> via,
                 scheduledAt |-> info.scheduledAt, pc |-> "exists"]
       IN  /\ scheduled' = Append(scheduled, [info |-> info, calls |-> Len(dequeued),
                                              now |-> clock])
           /\ pendingMessages' = schedule_nativePending(info)
           /\ scheduledTopic' = TRUE
           /\ IF ~scheduledTopic
              THEN scheduling' = scheduling \cup {c} /\ UNCHANGED settled
              ELSE IF c.scheduledAt.valid
              THEN scheduling' = scheduling \cup {[c EXCEPT !.pc = "publish"]}
                   /\ UNCHANGED settled
              ELSE SettleSchedule(c, "rejected", <<"Invalid time value">>)
    /\ UNCHANGED <<fixVars, regVars, subscriptions, started, made, tasks, starts, closes, pubs,
                   netVars, ghostVars, dIn, dOut, useEmulator, clock, dequeued>>

\* publishScheduledMessage resumes from this.scheduledTopic.exists()
schedule_exists(c) ==
    /\ c.pc = "exists"
    /\ IF ScheduledTopicName(Prefix) \in topics
       THEN ToPublish(c)
       ELSE /\ scheduling' = (scheduling \ {c}) \cup {[c EXCEPT !.pc = "create"]}
            /\ UNCHANGED settled
    /\ UNCHANGED <<fixVars, regVars, subscriptions, started, made, tasks, starts, closes, pubs,
                   netVars, ghostVars, dIn, dOut, pendingMessages, useEmulator, clock,
                   scheduled, dequeued, scheduledTopic>>

\* publishScheduledMessage resumes from this.scheduledTopic.create()
schedule_create(c) ==
    /\ c.pc = "create"
    /\ topics' = topics \cup {ScheduledTopicName(Prefix)}
    /\ ToPublish(c)
    /\ UNCHANGED <<fixVars, regVars, subscriptions, started, made, tasks, starts, closes, pubs,
                   remoteSubs, objs, clientOpen, faults, msgs, deliveries,
                   ghostVars, dIn, dOut, pendingMessages, useEmulator, clock,
                   scheduled, dequeued, scheduledTopic>>

\* publishScheduledMessage resumes from this.scheduledTopic.publishMessage():
\* accepted, or refused because the topic does not exist.
schedule_published(c) ==
    /\ c.pc = "publish"
    /\ IF ScheduledTopicName(Prefix) \in topics
       THEN /\ msgs' = Append(msgs, [type |-> c.type, topic |-> ScheduledTopicName(Prefix),
                                     messageType |-> c.type,
                                     publishTime |-> toISOString(c.scheduledAt),
                                     call |-> c.id])
            /\ SettleSchedule(c, "resolved", <<>>)
       ELSE /\ UNCHANGED msgs
            /\ SettleSchedule(c, "rejected", <<"Not Found">>)
    /\ UNCHANGED <<fixVars, regVars, subscriptions, started, made, tasks, starts, closes, pubs,
                   topics, remoteSubs, objs, clientOpen, faults, deliveries,
                   ghostVars, dIn, dOut, pendingMessages, useEmulator, clock,
                   scheduled, dequeued, scheduledTopic>>

\* The awaited transport request of publishScheduledMessage fails.
schedule_fail(c) ==
    /\ CanFail
    /\ faults' = faults + 1
    /\ SettleSchedule(c, "rejected", <<"unavailable">>)
    /\ UNCHANGED <<fixVars, regVars, subscriptions, started, made, tasks, starts, closes, pubs,
                   topics, remoteSubs, objs, clientOpen, msgs, deliveries,
                   ghostVars, dIn, dOut, pendingMessages, useEmulator, clock,
                   scheduled, dequeued, scheduledTopic>>

\* scheduler.clearPending()
clearPending ==
    /\ made.clears < MaxClears
    /\ made' = [made EXCEPT !.clears = @ + 1]
    /\ pendingMessages' = IF useEmulator THEN <<>> ELSE pendingMessages
    /\ UNCHANGED <<fixVars, regVars, subscriptions, started, tasks, starts, closes, pubs,
                   netVars, ghostVars, dIn, dOut, useEmulator, clock, scheduled, dequeued,
                   nativeVars>>

NextNative ==
    \/ tick
    \/ \E messageType \in Types, options \in NativeOptions, via \in Vias :
          schedule_native(messageType, options, via)
    \/ \E c \in scheduling : schedule_exists(c)
    \/ \E c \in scheduling : schedule_create(c)
    \/ \E c \in scheduling : schedule_published(c)
    \/ \E c \in scheduling : schedule_fail(c)
    \/ dequeue
    \/ clearPending

SpecNative == InitNative /\ [][NextNative]_vars

\* The messages the transport accepted from schedule() call id.
PublishedBy(id) == {i \in 1..Len(msgs) : msgs[i].call = id}

C23_ScheduleFailureSurfaces ==
    \A j \in 1..Len(settled) :
        settled[j].result = "rejected"
            => (settled[j].surfaced /\ includes(settled[j].error, settled[j].type))

(***************************************************************************)
(* autoCreateResources                                                     *)
(***************************************************************************)
\* Configurations with autoCreateResources set either way.
AutoCreateConfigs ==
    [autoCreateResources : BOOLEAN, cleanupOnClose : {FALSE},
     closePubSubClient : {"false"}, topicPrefix : {Prefix}]

\* One bus, started once on a transport where nothing has been provisioned,
\* with autoCreateResources set either way.
InitAutoCreate ==
    /\ InitBuses({"i1"}, AutoCreateConfigs,
                 [regs |-> MaxCycleRegs, args |-> MaxArgs, starts |-> 1, closes |-> 0,
                  pubs |-> MaxPubs, faults |-> 0])
    /\ NoIsolated

SpecAutoCreate == InitAutoCreate /\ [][NextRouting]_vars

\* C24: with autoCreateResources set to false the bus never creates a topic
\* or a subscription on the transport, in start(), in late registration, in
\* send() or in publish(); nothing having been provisioned beforehand, every
\* send() and publish() of a started bus then fails with the wrapped error
\* naming the topic that does not exist, and nothing is published.
C24_NoCreateWhenDisabled ==
    (\A b \in buses : ~config[b].autoCreateResources)
        => /\ topics = {}
           /\ remoteSubs = {}
           /\ msgs = <<>>
           /\ lastPub.result \in {"none", "not started", "topic does not exist"}

(***************************************************************************)
(* getOrCreateTopic / getOrCreateSubscription in isolation                 *)
(***************************************************************************)
MaxAckDeadline == 2     \* options.ackDeadlineSeconds: 0 (unset) .. MaxAckDeadline

ALREADY_EXISTS == 6
PERMISSION_DENIED == 7
UNAVAILABLE == 14

\* The gRPC status codes a failed request carries.
ErrorCodes == {ALREADY_EXISTS, PERMISSION_DENIED, UNAVAILABLE}

\* The resources asked for: a topic, or a subscription with its options.
ProvisionInputs ==
    {[kind |-> "provision", resource |-> "topic", name |-> getCommandTopicName(t, Prefix),
      options |-> [ackDeadlineSeconds |-> 0]] : t \in Types}
        \cup {[kind |-> "provision", resource |-> "subscription",
               name |-> getEventSubscriptionName(t, i, Prefix),
               options |-> [ackDeadlineSeconds |-> a]] :
                  t \in Types, i \in Inst, a \in 0..MaxAckDeadline}

\* The config object getOrCreateSubscription builds from the options: a
\* field is copied when it is truthy.
ConfigOf(options) ==
    IF options.ackDeadlineSeconds # 0
    THEN [set |-> {"ackDeadlineSeconds"}, ackDeadlineSeconds |-> options.ackDeadlineSeconds]
    ELSE [set |-> {}, ackDeadlineSeconds |-> 0]

\* The argument of create(): none for a topic, the config for a subscription.
CreateArgument(in) ==
    IF in.resource = "topic" THEN [set |-> {}, ackDeadlineSeconds |-> 0] ELSE ConfigOf(in.options)

\* The Error the outer catch throws for a request that failed with code.
Wrapped(in, code) ==
    [words |-> <<"Failed to get or create", in.resource>>, name |-> in.name, cause |-> code]

\* The call returns the resource reference.
ProvisionReturned(d) == [d EXCEPT !.pc = "returned", !.result = dIn.name]

\* The call throws the wrapped error.
ProvisionThrew(d, code) == [d EXCEPT !.pc = "threw", !.error = Wrapped(dIn, code)]

\* The inner catch rethrowing every create error, ALREADY_EXISTS included.
AfterCreateFailed_rethrowAll(d, code) == ProvisionThrew(d, code)

\* The inner catch of create(): ALREADY_EXISTS is ignored, any other error
\* is rethrown to the outer catch.
AfterCreateFailed(d, code) ==
    IF code # ALREADY_EXISTS THEN ProvisionThrew(d, code) ELSE ProvisionReturned(d)

\* The existence check answered exists while create() is issued anyway.
AfterExists_alwaysCreate(d, exists) ==
    [d EXCEPT !.pc = "create",
              !.requests = Append(@, [op |-> "create", config |-> CreateArgument(dIn)])]

\* The call resumes from exists() with the answer.
AfterExists(d, exists) ==
    IF exists THEN ProvisionReturned(d)
    ELSE [d EXCEPT !.pc = "create",
                   !.requests = Append(@, [op |-> "create", config |-> CreateArgument(dIn)])]

InitProvision ==
    /\ InitBuses({}, Configs({FALSE}, {"false"}),
                 [regs |-> 0, args |-> 0, starts |-> 0, closes |-> 0, pubs |-> 0, faults |-> 0])
    /\ dIn \in ProvisionInputs
    /\ dOut = NoDispatch
    /\ SchedulerInit({FALSE})

\* getOrCreateTopic(pubsub, name) / getOrCreateSubscription(topic, name,
\* options) is called and awaits exists().
getOrCreate_call ==
    /\ dIn.kind = "provision"
    /\ dOut = NoDispatch
    /\ dOut' = [kind |-> "provision", pc |-> "exists",
                requests |-> <<[op |-> "exists", config |-> [set |-> {}, ackDeadlineSeconds |-> 0]]>>,
                answers |-> <<>>, result |-> <<>>,
                error |-> [words |-> <<>>, name |-> <<>>, cause |-> 0]]
    /\ UNCHANGED <<fixVars, regVars, subscriptions, started, made, tasks, starts, closes, pubs,
                   netVars, ghostVars, dIn, schedVars>>

\* exists() answers.
getOrCreate_exists(exists) ==
    /\ dOut.kind = "provision"
    /\ dOut.pc = "exists"
    /\ dOut' = AfterExists([dOut EXCEPT !.answers = Append(@, [ok |-> TRUE, exists |-> exists,
                                                                code |-> 0])], exists)
    /\ UNCHANGED <<fixVars, regVars, subscriptions, started, made, tasks, starts, closes, pubs,
                   netVars, ghostVars, dIn, schedVars>>

\* exists() fails with code.
getOrCreate_existsFailed(code) ==
    /\ dOut.kind = "provision"
    /\ dOut.pc = "exists"
    /\ dOut' = ProvisionThrew([dOut EXCEPT !.answers = Append(@, [ok |-> FALSE, exists |-> FALSE,
                                                                   code |-> code])], code)
    /\ UNCHANGED <<fixVars, regVars, subscriptions, started, made, tasks, starts, closes, pubs,
                   netVars, ghostVars, dIn, schedVars>>

\* create() succeeds.
getOrCreate_created ==
    /\ dOut.kind = "provision"
    /\ dOut.pc = "create"
    /\ dOut' = ProvisionReturned([dOut EXCEPT !.answers = Append(@, [ok |-> TRUE, exists |-> FALSE,
                                                                      code |-> 0])])
    /\ UNCHANGED <<fixVars, regVars, subscriptions, started, made, tasks, starts, closes, pubs,
                   netVars, ghostVars, dIn, schedVars>>

\* create() fails with code.
getOrCreate_createFailed(code) ==
    /\ dOut.kind = "provision"
    /\ dOut.pc = "create"
    /\ dOut' = AfterCreateFailed([dOut EXCEPT !.answers = Append(@, [ok |-> FALSE, exists |-> FALSE,
                                                                      code |-> code])], code)
    /\ UNCHANGED <<fixVars, regVars, subscriptions, started, made, tasks, starts, closes, pubs,
                   netVars, ghostVars, dIn, schedVars>>

NextProvision ==
    \/ getOrCreate_call
    \/ \E exists \in BOOLEAN : getOrCreate_exists(exists)
    \/ \E code \in ErrorCodes : getOrCreate_existsFailed(code)
    \/ getOrCreate_created
    \/ \E code \in ErrorCodes : getOrCreate_createFailed(code)

SpecProvision == InitProvision /\ [][NextProvision]_vars

\* The requests of the call that are create requests.
Creates == {i \in 1..Len(dOut.requests) : dOut.requests[i].op = "create"}

\* C25: getOrCreateTopic and getOrCreateSubscription issue a create only
\* when the existence check reported the resource absent, and the
\* subscription options are passed on that create only; a create failure
\* with the ALREADY_EXISTS code (6) is absorbed and the resource reference is
\* returned, and every other failure of the existence check or of the create
\* propagates as an error naming the resource.
C25_CreateOnlyWhenAbsent ==
    dOut.kind = "provision"
        => /\ \A i \in Creates :
                 /\ i = 2
                 /\ dOut.answers[1] = [ok |-> TRUE, exists |-> FALSE, code |-> 0]
                 /\ dOut.requests[i].config.set =
                        IF dIn.resource = "subscription" /\ dIn.options.ackDeadlineSeconds # 0
                        THEN {"ackDeadlineSeconds"} ELSE {}
                 /\ dOut.requests[i].config.ackDeadlineSeconds =
                        IF dIn.resource = "subscription" THEN dIn.options.ackDeadlineSeconds ELSE 0
           /\ dOut.requests[1].config.set = {}
           /\ Len(dOut.answers) = Len(dOut.requests)
                 => LET a == dOut.answers[Len(dOut.answers)]
                    IN  IF a.ok \/ (Len(dOut.answers) = 2 /\ a.code = 6)
                        THEN a.exists \/ Len(dOut.answers) = 2
                                 => (dOut.pc = "returned" /\ dOut.result = dIn.name)
                        ELSE /\ dOut.pc = "threw"
                             /\ dOut.error.name = dIn.name
                             /\ dOut.error.cause = a.code

\* C25 case: the subscription was absent, the create carrying the options
\* lost the race and failed with ALREADY_EXISTS, and the reference is returned.
C25_Witness ==
    /\ dOut.kind = "provision" /\ dIn.resource = "subscription"
    /\ dIn.options.ackDeadlineSeconds = MaxAckDeadline
    /\ Len(dOut.requests) = 2 /\ Len(dOut.answers) = 2
    /\ dOut.requests[2].config.set = {"ackDeadlineSeconds"}
    /\ dOut.answers[2] = [ok |-> FALSE, exists |-> FALSE, code |-> 6]
    /\ dOut.pc = "returned"

(***************************************************************************)
(* Registration on a started bus                                           *)
(***************************************************************************)
\* One bus, started once and never closed, whose single registration call
\* can come after the start and whose transport requests can fail.
InitLate ==
    /\ InitBuses({"i1"}, Configs({FALSE}, {"false"}),
                 [regs |-> MaxCycleRegs, args |-> MaxArgs, starts |-> 1, closes |-> 0,
                  pubs |-> MaxPubs, faults |-> MaxFaults])
    /\ NoIsolated

\* A provisioning request is answered with a failure.
ProvisionFails == \E t \in tasks : Provision_fail(t)

NextLate ==
    \/ Awaited /\ Register
    \/ Awaited /\ StartCall
    \/ Awaited /\ ProduceCall
    \/ Provision
    \/ ProvisionFails
    \/ StartStep
    \/ \E c \in starts : start_reject(c)
    \/ ProduceStep
    \/ Consume

SpecLate == InitLate /\ [][NextLate]_vars

\* The transport answers every request and the event loop runs every
\* continuation that is ready.
SpecLateFair == SpecLate /\ WF_vars(Provision \/ ProvisionFails)

\* The step is a handle() or subscribe() call made on bus b while started.
LateStep(b) == started[b] /\ made'.regs = made.regs + 1 /\ last'.bus = b

\* The call of the step is not a duplicate command registration.
NoDuplicate(b) ==
    last'.op = "handle"
        => /\ \A i, j \in 1..Len(last'.types) : i # j => last'.types[i] # last'.types[j]
           /\ \A i \in 1..Len(last'.types) : ~MapHas(handlers[b], last'.types[i])

\* What identifies a detached createSubscriptionForType invocation.
LateIds == [bus : Inst, type : Types, kind : Kinds, subId : {NoId, "u1", "u2"}]

\* The detached invocation x is in flight in the given set of tasks.
InFlight(x, ts) ==
    \E t \in ts : t.call = 0 /\ [bus |-> t.bus, type |-> t.type, kind |-> t.kind,
                                  subId |-> t.subId] = x

\* The step has attached a 'message' listener for x on a new tracked handle.
AttachedFor(x) ==
    /\ Len(subscriptions'[x.bus]) = Len(subscriptions[x.bus]) + 1
    /\ Len(objs') = Len(objs) + 1
    /\ Len(objs'[Len(objs')].listeners) = 1
    /\ objs'[Len(objs')].listeners[1].type = x.type
    /\ objs'[Len(objs')].listeners[1].kind = x.kind

\* The delivery e was made after a registration that followed the start.
DeliveredLate(e) ==
    \E i, j \in 1..Len(e.after) :
        i < j /\ e.after[i] = "start_ok" /\ e.after[j] \in {"handle", "subscribe"}

\* C26: a handle() or subscribe() call made while the bus is started returns
\* normally after recording the handler, and the provisioning of its
\* subscription runs detached; the detached provisioning eventually ends,
\* either by attaching the listener, after which deliveries reach the
\* handler, or by a failure that changes nothing: the call has not thrown
\* and the handler stays registered.
C26_LateRegistration ==
    /\ [][\A b \in buses : (LateStep(b) /\ NoDuplicate(b))
             => /\ ~last'.threw
                /\ \A i \in 1..Len(last'.types) :
                      /\ last'.handler \in Range(MapGetOr(handlers'[b], last'.types[i], <<>>))
                      /\ \E t \in tasks' \ tasks : t.call = 0 /\ t.type = last'.types[i]]_vars
    /\ [][\A x \in LateIds : (InFlight(x, tasks) /\ ~InFlight(x, tasks'))
             => \/ AttachedFor(x)
                \/ UNCHANGED <<regVars, subscriptions, started, objs, last, hist>>]_vars
    /\ \A x \in LateIds : InFlight(x, tasks) ~> ~InFlight(x, tasks)
    /\ [](\A e \in log : DeliveredLate(e) => e.invoked = <<HandlerOfCall(1)>>)

\* C26 case: the bus was started with nothing registered, handle() was
\* called, its detached provisioning attached the listener, and a command
\* sent afterwards was delivered to the handler.
C26_Witness ==
    /\ hist["i1"] = <<"start_ok", "handle">>
    /\ tasks = {}
    /\ \E e \in log : DeliveredLate(e) /\ e.invoked = <<"h1">>

(***************************************************************************)
(* The kind a published message is marked with                             *)
(***************************************************************************)
\* C27: every message sent with send() is marked command and every message
\* published with publish() is marked event, in the messageKind attribute
\* (which carries the kind of the method) and in the kind field of the wire
\* envelope alike: the two always agree with each other and with the topic,
\* cmd or evt, the message is published to.
C27_KindFollowsMethod ==
    \A i \in 1..Len(msgs) :
        /\ msgs[i].envelopeKind = msgs[i].messageKind
        /\ msgs[i].topic[2] = IF msgs[i].messageKind = "command" THEN "cmd" ELSE "evt"

(***************************************************************************)
(* The wire codec (serialization.ts)                                       *)
(***************************************************************************)
MaxCodecTime == 1   \* time values of the Dates in a message: 1..MaxCodecTime
MaxFields == 2      \* properties of an object in a message

\* Values are tagged trees: null, a number, NaN, a string, a Date, an array,
\* an object (its properties in insertion order).
Null == [tag |-> "null"]
Num(n) == [tag |-> "num", n |-> n]
NotANumber == [tag |-> "nan"]
Str(s) == [tag |-> "str", s |-> s]
DateValue(d) == [tag |-> "date", d |-> d]
Arr(items) == [tag |-> "arr", items |-> items]
Obj(fields) == [tag |-> "obj", fields |-> fields]

CodecDates == {DateOf(t) : t \in 1..MaxCodecTime} \cup {InvalidDate}

CodecStrings == {"x", "Date"} \cup {toISOString(DateOf(t)) : t \in 1..MaxCodecTime}

Keys == <<"__type", "value", "a">>

Leaves ==
    {Null, Num(1), NotANumber} \cup {Str(s) : s \in CodecStrings}
        \cup {DateValue(d) : d \in CodecDates}

\* The objects whose properties, at most MaxFields of them, keep the order of
\* Keys and hold values of vals.
ObjectsOver(vals) ==
    {Obj(<<>>)}
        \cup {Obj(<<[key |-> Keys[i], val |-> v]>>) : i \in 1..Len(Keys), v \in vals}
        \cup (IF MaxFields < 2 THEN {}
              ELSE {Obj(<<[key |-> Keys[ij[1]], val |-> v], [key |-> Keys[ij[2]], val |-> w]>>) :
                       ij \in {x \in (1..Len(Keys)) \X (1..Len(Keys)) : x[1] < x[2]},
                       v \in vals, w \in vals})

\* Trees of depth one, and the trees that hold one of them under a property
\* or in an array.
Shallow == Leaves \cup ObjectsOver(Leaves) \cup {Arr(<<>>)} \cup {Arr(<<v>>) : v \in Leaves}
Trees ==
    Shallow \cup {Obj(<<[key |-> "a", val |-> v]>>) : v \in Shallow \ Leaves}
            \cup {Arr(<<v>>) : v \in Shallow \ Leaves}

\* The messages given to serialize: metadata absent, or an object.
CodecMessages ==
    [type : {"ItemAdded"}, data : Trees, hasMetadata : {FALSE}, metadata : {Null}]
        \cup [type : {"ItemAdded"}, data : Trees, hasMetadata : {TRUE},
              metadata : {Obj(<<>>), Obj(<<[key |-> "a", val |-> DateValue(DateOf(1))]>>)}]

\* new Date(string): the Date an ISO string denotes, Invalid Date otherwise.
ParseDate(s) ==
    IF \E t \in 1..MaxCodecTime : s = toISOString(DateOf(t))
    THEN DateOf(CHOOSE t \in 1..MaxCodecTime : s = toISOString(DateOf(t)))
    ELSE InvalidDate

\* A Date inside v is an Invalid Date: toISOString throws RangeError.
RECURSIVE HasInvalidDate(_)
HasInvalidDate(v) ==
    CASE v.tag = "date" -> ~v.d.valid
      [] v.tag = "arr" -> \E i \in 1..Len(v.items) : HasInvalidDate(v.items[i])
      [] v.tag = "obj" -> \E i \in 1..Len(v.fields) : HasInvalidDate(v.fields[i].val)
      [] OTHER -> FALSE

\* transformDatesToMarkers(obj), on a tree whose Dates are valid
RECURSIVE transformDatesToMarkers(_)
transformDatesToMarkers(v) ==
    CASE v.tag = "date" ->
            Obj(<<[key |-> "__type", val |-> Str("Date")],
                  [key |-> "value", val |-> Str(toISOString(v.d))]>>)
      [] v.tag = "arr" -> Arr([i \in 1..Len(v.items) |-> transformDatesToMarkers(v.items[i])])
      [] v.tag = "obj" ->
            Obj([i \in 1..Len(v.fields) |->
                    [key |-> v.fields[i].key, val |-> transformDatesToMarkers(v.fields[i].val)]])
      [] OTHER -> v

\* JSON.stringify then JSON.parse without reviver, on a tree without Dates:
\* NaN is written as null, everything else comes back as it was.
RECURSIVE ThroughJson(_)
ThroughJson(v) ==
    CASE v.tag = "nan" -> Null
      [] v.tag = "arr" -> Arr([i \in 1..Len(v.items) |-> ThroughJson(v.items[i])])
      [] v.tag = "obj" ->
            Obj([i \in 1..Len(v.fields) |->
                    [key |-> v.fields[i].key, val |-> ThroughJson(v.fields[i].val)]])
      [] OTHER -> v

\* The value of property key of the object v, Null when it has none.
Property(v, key) ==
    IF \E i \in 1..Len(v.fields) : v.fields[i].key = key
    THEN v.fields[CHOOSE i \in 1..Len(v.fields) : v.fields[i].key = key].val
    ELSE Null

\* isDateMarker(value)
isDateMarker(v) ==
    /\ v.tag = "obj"
    /\ \E i \in 1..Len(v.fields) : v.fields[i].key = "__type"
    /\ Property(v, "__type") = Str("Date")
    /\ \E i \in 1..Len(v.fields) : v.fields[i].key = "value"
    /\ Property(v, "value").tag = "str"

\* dateReviver(_key, value)
dateReviver(v) == IF isDateMarker(v) THEN DateValue(ParseDate(Property(v, "value").s)) ELSE v

\* JSON.parse(json, dateReviver): the reviver is applied bottom-up.
RECURSIVE Revive(_)
Revive(v) ==
    CASE v.tag = "arr" -> dateReviver(Arr([i \in 1..Len(v.items) |-> Revive(v.items[i])]))
      [] v.tag = "obj" ->
            dateReviver(Obj([i \in 1..Len(v.fields) |->
                               [key |-> v.fields[i].key, val |-> Revive(v.fields[i].val)]]))
      [] OTHER -> dateReviver(v)

\* serialize(message): the envelope as it is read back from the JSON text,
\* before any reviver; metadata undefined is left out by JSON.stringify.
serialize(message) ==
    [fields |-> {"type", "kind", "data", "timestamp", "messageId"}
                    \cup (IF message.hasMetadata THEN {"metadata"} ELSE {}),
     type |-> message.type,
     kind |-> getMessageKind(message.type),
     data |-> ThroughJson(transformDatesToMarkers(message.data)),
     metadata |-> IF message.hasMetadata
                  THEN ThroughJson(transformDatesToMarkers(message.metadata)) ELSE Null]

\* serialize(message) throws.
serialize_throws(message) ==
    HasInvalidDate(message.data) \/ (message.hasMetadata /\ HasInvalidDate(message.metadata))

\* The message deserialize builds from the envelope: type, data, and
\* metadata when the envelope has a truthy one.
deserializeEnvelope(envelope) ==
    LET hasMetadata == "metadata" \in envelope.fields /\ Revive(envelope.metadata).tag # "null"
    IN  [fields |-> {"type", "data"} \cup (IF hasMetadata THEN {"metadata"} ELSE {}),
         type |-> envelope.type,
         data |-> Revive(envelope.data),
         hasMetadata |-> hasMetadata,
         metadata |-> IF hasMetadata THEN Revive(envelope.metadata) ELSE Null]

InitCodec ==
    /\ InitBuses({}, Configs({FALSE}, {"false"}),
                 [regs |-> 0, args |-> 0, starts |-> 0, closes |-> 0, pubs |-> 0, faults |-> 0])
    /\ dIn \in [kind : {"codec"}, message : CodecMessages]
    /\ dOut = NoDispatch
    /\ SchedulerInit({FALSE})

\* serialize(message) is called.
serialize_call ==
    /\ dIn.kind = "codec"
    /\ dOut = NoDispatch
    /\ dOut' = IF serialize_throws(dIn.message)
               THEN [kind |-> "codec", pc |-> "threw"]
               ELSE [kind |-> "codec", pc |-> "serialized", envelope |-> serialize(dIn.message)]
    /\ UNCHANGED <<fixVars, regVars, subscriptions, started, made, tasks, starts, closes, pubs,
                   netVars, ghostVars, dIn, schedVars>>

\* deserialize(buffer) is called on what serialize returned.
deserialize_call ==
    /\ dOut.kind = "codec"
    /\ dOut.pc = "serialized"
    /\ dOut' = [kind |-> "codec", pc |-> "deserialized",
                message |-> deserializeEnvelope(dOut.envelope)]
    /\ UNCHANGED <<fixVars, regVars, subscriptions, started, made, tasks, starts, closes, pubs,
                   netVars, ghostVars, dIn, schedVars>>

NextCodec ==
    \/ serialize_call
    \/ deserialize_call

SpecCodec == InitCodec /\ [][NextCodec]_vars

\* C28: for every message whose data and metadata are trees of objects,
\* arrays, scalars and Dates, serialize does not throw and
\* deserialize(serialize(m)) has the type of m and data and metadata deeply
\* equal to those of m, Date leaves being Dates again and nothing else having
\* become a Date, and has no timestamp and no messageId field.
C28_RoundTrip ==
    dOut.kind = "codec"
        => /\ dOut.pc # "threw"
           /\ dOut.pc = "deserialized"
                 => /\ dOut.message.type = dIn.message.type
                    /\ dOut.message.data = dIn.message.data
                    /\ dOut.message.hasMetadata = dIn.message.hasMetadata
                    /\ dOut.message.metadata = dIn.message.metadata
                    /\ dOut.message.fields \cap {"timestamp", "messageId"} = {}

(***************************************************************************)
(* start() again after a start() that failed                               *)
(***************************************************************************)
\* Buses on one transport that are never closed, whose provisioning can fail,
\* with producing and consuming.
InitRetry ==
    /\ InitBuses(Inst, Configs({FALSE}, {"false"}),
                 [regs |-> MaxCycleRegs, args |-> MaxArgs, starts |-> MaxStarts, closes |-> 0,
                  pubs |-> MaxPubs, faults |-> MaxFaults])
    /\ NoIsolated

StartFails == \E c \in starts : start_reject(c)

NextRetry ==
    \/ Awaited /\ Register
    \/ Awaited /\ StartCall
    \/ Awaited /\ ProduceCall
    \/ Provision \/ StartStep \/ ProduceStep \/ Consume
    \/ ProvisionFails
    \/ StartFails

SpecRetry == InitRetry /\ [][NextRetry]_vars

\* The last start() of bus b to return threw.
StartOutcomes(h) == SelectSeq(h, LAMBDA x : x \in {"start_ok", "start_failed", "start_skipped"})

LastStartFailed(b) ==
    LET outcomes == StartOutcomes(hist[b])
    IN  outcomes # <<>> /\ outcomes[Len(outcomes)] = "start_failed"

\* A start() of bus b threw and a later one returned normally.
StartedAfterFailure(b) ==
    LET outcomes == StartOutcomes(hist[b])
    IN  /\ outcomes # <<>>
        /\ outcomes[Len(outcomes)] = "start_ok"
        /\ \E k \in 1..Len(outcomes) : outcomes[k] = "start_failed"

\* The 'message' listeners attached for subscription name, over all its
\* Subscription objects.
ListenersOn(name) ==
    UNION {{<<o, k>> : k \in 1..Len(objs[o].listeners)} :
              o \in {x \in 1..Len(objs) : objs[x].name = name}}

\* C29: once a start() has failed (the bus is never closed), the bus tracks no
\* subscription handle and none of its Subscription objects has a message
\* listener; no delivery made while the last start() has failed invokes a
\* handler; and once a later start() has succeeded every subscription of the
\* bus has exactly one message listener.
C29_FailedStartLeavesNothing ==
    \A b \in buses :
        /\ (LastStartFailed(b) /\ starts = {})
              => /\ subscriptions[b] = <<>>
                 /\ \A o \in 1..Len(objs) : objs[o].bus = b => objs[o].listeners = <<>>
        /\ \A e \in log :
              (e.bus = b /\ StartOutcomes(e.after) # <<>>
                         /\ StartOutcomes(e.after)[Len(StartOutcomes(e.after))] = "start_failed")
                  => e.invoked = <<>>
        /\ (StartedAfterFailure(b) /\ Awaited /\ tasks = {})
              => \A o \in 1..Len(objs) :
                     objs[o].bus = b => Cardinality(ListenersOn(objs[o].name)) = 1

(***************************************************************************)
(* start, close, start, close of one bus                                   *)
(***************************************************************************)
MaxRestartCloses == 2

\* One bus that is started and closed more than once, nothing produced, no
\* transport failure; the client is left open by close(), and close() is
\* called only when no provisioning is in progress.
InitRestart ==
    /\ InitBuses({"i1"}, Configs(BOOLEAN, {"false"}),
                 [regs |-> MaxCycleRegs, args |-> MaxArgs, starts |-> MaxStarts,
                  closes |-> MaxRestartCloses, pubs |-> 0, faults |-> 0])
    /\ NoIsolated

NextRestart ==
    \/ Awaited /\ Register
    \/ Awaited /\ StartCall
    \/ Awaited /\ tasks = {} /\ CloseCall
    \/ Provision \/ StartStep \/ CloseStep

SpecRestart == InitRestart /\ [][NextRestart]_vars

\* Bus b is started and at rest: no call and no provisioning in progress.
StartedAtRest(b) == started[b] /\ Awaited /\ tasks = {}

\* C30: when a bus is started and at rest, its tracked list holds one handle
\* per command type plus one per event registration, none of them a handle
\* that a close() has already closed; and over the bus's life close() calls
\* close() on a Subscription object at most once, deletes through it at most
\* once, and leaves no listener on the objects of a closed bus.
C30_TrackedSinceLastStart ==
    \A b \in buses :
        /\ StartedAtRest(b)
              => /\ Len(subscriptions[b]) = Cardinality(StartTasks(b, 0))
                 /\ \A k \in 1..Len(subscriptions[b]) : objs[Tracked(b)[k]].closeCalls = 0
        /\ \A o \in 1..Len(objs) :
              objs[o].bus = b => objs[o].closeCalls <= 1 /\ objs[o].deleteCalls <= 1
        /\ (~started[b] /\ Awaited /\ tasks = {})
              => \A o \in 1..Len(objs) : objs[o].bus = b => objs[o].listeners = <<>>

(***************************************************************************)
(* The order of the steps of close()                                       *)
(***************************************************************************)
\* The program point from which close() call c reaches its client step.
BeforeClient(c) == IF config[c.bus].cleanupOnClose THEN "cleanup" ELSE "wait"

\* The program point from which close() call c reaches its end.
BeforeEnd(c) == IF config[c.bus].closePubSubClient # "false" THEN "client" ELSE BeforeClient(c)

MaxFrameScheduled == 2
MaxFrameDequeues == 1

\* The `when` arguments used: undefined, a delay not yet elapsed, and an
\* Invalid Date.
FrameOptions ==
    {o \in ScheduleOptions :
        \/ o.kind = "undefined"
        \/ o.kind = "afterInMs" /\ o.afterInMs = NumberOf(MaxDelay)
        \/ o.kind = "at" /\ o.at = InvalidDate}

\* One bus with every configuration of close(), its scheduler buffering.
InitFrame ==
    /\ InitBuses({"i1"}, Configs(BOOLEAN, {"undefined", "true", "false"}),
                 [regs |-> MaxCycleRegs, args |-> 1, starts |-> MaxStarts, closes |-> MaxCloses,
                  pubs |-> 0, faults |-> 0, dequeues |-> MaxFrameDequeues])
    /\ dIn = NoDispatch
    /\ dOut = NoDispatch
    /\ SchedulerInit({TRUE})

\* bus.schedule(message, when): scheduler.schedule(message, when)
ScheduleCall == Len(scheduled) < MaxFrameScheduled /\ \E options \in FrameOptions : schedule(options)

NextFrame ==
    \/ Awaited /\ Register
    \/ Awaited /\ StartCall
    \/ Awaited /\ CloseCall
    \/ Provision \/ StartStep \/ CloseStep
    \/ ScheduleCall
    \/ dequeue
    \/ clearPending

SpecFrame == InitFrame /\ [][NextFrame]_vars

\* A step of a close() call of bus b: the call itself or one of its
\* continuations.
IsStepOfClose(b) ==
    \/ IsCloseStep(b)
    \/ \E c \in closes : c.bus = b /\ c \notin closes'

\* C32: a step of close() deletes subscriptions only when cleanupOnClose is
\* true and closes the client only when closePubSubClient is not false; with
\* cleanupOnClose false no subscription of the bus is ever deleted, with
\* closePubSubClient false the client stays open; and every step of close()
\* leaves the handler registries and the scheduler's pending collection
\* unchanged.
C32_CloseFlagsAndFrame ==
    /\ [][\A b \in buses :
            IsStepOfClose(b)
                => /\ (remoteSubs' # remoteSubs
                         \/ \E o \in 1..Len(objs) : objs'[o].deleteCalls # objs[o].deleteCalls)
                        => config[b].cleanupOnClose
                   /\ clientOpen' # clientOpen => config[b].closePubSubClient # "false"
                   /\ UNCHANGED <<handlers, subscriptionHandlers, eventSubscriptionIds,
                                  commandTypes, eventTypes, pendingMessages>>]_vars
    /\ [](\A b \in buses :
            /\ ~config[b].cleanupOnClose
                  => \A o \in 1..Len(objs) : objs[o].bus = b => objs[o].deleteCalls = 0
            /\ config[b].closePubSubClient = "false" => clientOpen[b])
    /\ [][\A b \in buses : ~config[b].cleanupOnClose => remoteSubs \subseteq remoteSubs']_vars

\* C32 case: a close() of a bus with a registered handler and a pending
\* scheduled entry has ended without deleting the subscription it closed and
\* without closing the client.
C32_Witness ==
    \E b \in buses :
        /\ ~config[b].cleanupOnClose
        /\ config[b].closePubSubClient = "false"
        /\ hist[b] # <<>> /\ hist[b][Len(hist[b])] = "close_ok"
        /\ handlers[b] # <<>>
        /\ pendingMessages # <<>>
        /\ remoteSubs # {}
        /\ \E o \in 1..Len(objs) : objs[o].bus = b /\ objs[o].closeCalls = 1

(***************************************************************************)
(* The kind of a type follows its registration                             *)
(***************************************************************************)
\* The entries bus b tracks for type T.
TrackedFor(b, T) == {k \in 1..Len(subscriptions[b]) : subscriptions[b][k].messageType = T}

\* The step is a registration call op of bus b naming type T.
Registers(op, b, T) ==
    /\ made'.regs = made.regs + 1
    /\ last'.op = op
    /\ last'.bus = b
    /\ T \in Range(last'.types)

\* C33: right after handle() has registered type T, determineMessageKind(T)
\* is command, and right after a subscribe() naming a type T never passed to
\* handle() it is event, whatever the name of T; for a type in neither record
\* it is command exactly when the name contains 'command' (of the type names
\* used, AddItemCommand alone); the provisioning launched for a type
\* registered through subscribe() only is of kind event, and once the bus is
\* started with provisioning complete that type has one tracked subscription
\* per registration, each on its evt topic.
C33_KindFromRegistration ==
    /\ [][\A b \in buses : \A T \in Types :
            /\ (Registers("handle", b, T) /\ T \in commandTypes'[b])
                  => (determineMessageKind(b, T))' = "command"
            /\ (Registers("subscribe", b, T) /\ T \notin commandTypes'[b])
                  => (determineMessageKind(b, T))' = "event"]_vars
    /\ [](\A b \in buses : \A T \in Types :
            /\ T \in commandTypes[b] => determineMessageKind(b, T) = "command"
            /\ T \in eventTypes[b] \ commandTypes[b] => determineMessageKind(b, T) = "event"
            /\ T \notin commandTypes[b] \cup eventTypes[b]
                  => determineMessageKind(b, T) = IF T = "AddItemCommand" THEN "command" ELSE "event"
            /\ T \in eventTypes[b] \ commandTypes[b]
                  => /\ \A t \in tasks : (t.bus = b /\ t.type = T) => t.kind = "event"
                     /\ ProvisioningComplete(b)
                           => /\ Cardinality(TrackedFor(b, T)) = Len(SubIdsOf(b, T))
                              /\ \A k \in TrackedFor(b, T) :
                                    /\ subscriptions[b][k].topic = <<config[b].topicPrefix, "evt", T>>
                                    /\ subscriptions[b][k].kind = "event")

\* C33 case: AddItemCommand was registered twice through subscribe() and never
\* through handle(), and the started bus tracks two subscriptions for it.
C33_Witness ==
    \E b \in buses :
        /\ "AddItemCommand" \in eventTypes[b] \ commandTypes[b]
        /\ ProvisioningComplete(b)
        /\ Len(SubIdsOf(b, "AddItemCommand")) = 2
        /\ Cardinality(TrackedFor(b, "AddItemCommand")) = 2

(***************************************************************************)
(* schedule() in buffered mode, in every lifecycle state                   *)
(***************************************************************************)
\* The step is a schedule() call.
IsScheduleStep == Len(scheduled') = Len(scheduled) + 1

\* The entries dequeue() calls have returned so far, in all.
ReturnedCount ==
    Cardinality(UNION {{<<k, i>> : i \in 1..Len(dequeued[k].returned)} : k \in 1..Len(dequeued)})

\* The step is a clearPending() call.
IsClearStep == made'.clears = made.clears + 1

\* C34: in buffered mode a schedule() call, whether the bus has not been
\* started, is started or has been closed, changes nothing of the transport,
\* of the provisioning, of the handler registries or of the lifecycle state
\* and appends one entry to the pending collection; and getPendingCount() is
\* the number of entries scheduled less those dequeue() calls have returned,
\* as long as clearPending() has not been called, and 0 right after a
\* clearPending().
C34_BufferedScheduleFrame ==
    /\ [][IsScheduleStep
            => /\ UNCHANGED <<netVars, regVars, subscriptions, started, tasks, starts, closes,
                              pubs, made, hist, nativeVars>>
               /\ Len(pendingMessages') = Len(pendingMessages) + 1
               /\ SubSeq(pendingMessages', 1, Len(pendingMessages)) = pendingMessages]_vars
    /\ [](made.clears = 0 => getPendingCount = Len(scheduled) - ReturnedCount)
    /\ [][IsClearStep => getPendingCount' = 0]_vars

(***************************************************************************)
(* A handle() call that throws                                             *)
(***************************************************************************)
\* C35: a handle() call that throws leaves the handler registry and the
\* command-kind set of its bus as they were and starts no provisioning.
C35_HandleAllOrNothing ==
    [][\A b \in buses :
         (made'.regs = made.regs + 1 /\ last'.op = "handle" /\ last'.bus = b /\ last'.threw)
             => /\ handlers'[b] = handlers[b]
                /\ commandTypes'[b] = commandTypes[b]
                /\ tasks' = tasks]_vars

(***************************************************************************)
(* Calls that overlap a start() in progress                                *)
(***************************************************************************)
\* One bus that is never closed; start() can be called again while a start()
\* call is awaiting its provisioning.
InitOverlap ==
    /\ InitBuses({"i1"}, Configs({FALSE}, {"false"}),
                 [regs |-> MaxCycleRegs, args |-> MaxArgs, starts |-> MaxStarts, closes |-> 0,
                  pubs |-> MaxPubs, faults |-> 0])
    /\ NoIsolated

NextOverlap ==
    \/ Awaited /\ Register
    \/ pubs = {} /\ StartCall
    \/ Awaited /\ ProduceCall
    \/ Provision \/ StartStep \/ ProduceStep \/ Consume

SpecOverlap == InitOverlap /\ [][NextOverlap]_vars

\* The entries of bus b's tracked list for the subscription named n.
TrackedAs(b, n) == {k \in 1..Len(subscriptions[b]) : objs[Tracked(b)[k]].name = n}

\* C36: whatever start() calls overlapped, once the bus is started with no
\* provisioning in flight every registered subscription is tracked once and
\* has exactly one attached message listener, and each delivery is dispatched
\* once.
C36_OverlappingStarts ==
    \A b \in buses :
        /\ ProvisioningComplete(b)
              => /\ OneListenerEach(b)
                 /\ \A n \in RegisteredSubs(b) : Cardinality(TrackedAs(b, n)) = 1
        /\ \A e, f \in log :
              (e.msg = f.msg /\ e.sub = f.sub /\ e.attempt = f.attempt) => e = f

(***************************************************************************)
(* Registration while a start() is in progress                             *)
(***************************************************************************)
\* One bus that is never closed, started by calls that do not overlap;
\* handlers can be registered while a start() call is awaiting its
\* provisioning.
InitDuringStart ==
    /\ InitBuses({"i1"}, Configs({FALSE}, {"false"}),
                 [regs |-> MaxRegs, args |-> 1, starts |-> 1, closes |-> 0,
                  pubs |-> MaxPubs, faults |-> 0])
    /\ NoIsolated

NextDuringStart ==
    \/ pubs = {} /\ Register
    \/ Awaited /\ StartCall
    \/ Awaited /\ ProduceCall
    \/ Provision \/ StartStep \/ ProduceStep \/ Consume

SpecDuringStart == InitDuringStart /\ [][NextDuringStart]_vars

\* C37: once the bus is started and no provisioning is in flight, every
\* subscription its registrations call for exists and has a listener
\* attached, also when a registration was made while start() was in progress.
C37_RegistrationDuringStart ==
    \A b \in buses :
        ProvisioningComplete(b)
            => \A n \in RegisteredSubs(b) : n \in remoteSubs /\ Listening(b, n) # {}

(***************************************************************************)
(* close() while a late registration is being provisioned                  *)
(***************************************************************************)
\* Buses on one transport, each call awaited; the provisioning a late
\* handle() or subscribe() launches is detached, so a close() can be called
\* and can end while it is in flight.
InitCloseRace ==
    /\ InitBuses(Inst, Configs({FALSE}, {"false"}),
                 [regs |-> MaxCycleRegs, args |-> 1, starts |-> MaxStarts, closes |-> MaxCloses,
                  pubs |-> MaxPubs, faults |-> 0])
    /\ NoIsolated

SpecCloseRace == InitCloseRace /\ [][Next]_vars

\* Bus b is not started and no start() of it is in progress.
Stopped(b) == ~started[b] /\ ~\E c \in starts : c.bus = b

\* C38: when a bus has been closed and no start() of it is in progress, none
\* of its Subscription objects has a message listener, also when a late
\* registration was being provisioned while close() ran; and no delivery made
\* to a bus that is not started, with no start() in progress, invokes a
\* handler.
C38_NoListenerAfterClose ==
    /\ [](\A b \in buses :
            LET l == Lifecycle(hist[b])
            IN  (Stopped(b) /\ l # <<>> /\ l[Len(l)] = "close_ok")
                    => \A o \in 1..Len(objs) : objs[o].bus = b => objs[o].listeners = <<>>)
    /\ [][\A e \in log' \ log : Stopped(e.bus) => e.invoked = <<>>]_vars

(***************************************************************************)
(* Overlapping send()/publish() calls                                      *)
(***************************************************************************)
MaxRacePubs == 2

\* One started bus with autoCreateResources and no topic yet; send() and
\* publish() can be called while an earlier call is in progress.
InitPublishRace ==
    /\ InitBuses({"i1"}, Configs({FALSE}, {"false"}),
                 [regs |-> 0, args |-> 0, starts |-> 1, closes |-> 0,
                  pubs |-> MaxRacePubs, faults |-> 0])
    /\ NoIsolated

NextPublishRace ==
    \/ Awaited /\ StartCall
    \/ starts = {} /\ ProduceCall
    \/ StartStep \/ ProduceStep

SpecPublishRace == InitPublishRace /\ [][NextPublishRace]_vars

\* C39: with autoCreateResources true and a transport that does not fail,
\* every send() or publish() made on a started bus publishes its message,
\* also when it overlaps another call for the same type whose topic does not
\* exist yet.
C39_OverlappingPublishes ==
    \A b \in buses :
        (config[b].autoCreateResources /\ lastPub.bus = b
            /\ lastPub.result \notin {"none", "not started"})
                => lastPub.result = "published"

(***************************************************************************)
(* The scheduling topic is there before a publish to it                    *)
(***************************************************************************)
\* C40: in native mode a schedule() call issues its publish request to the
\* scheduling topic only when that topic exists, its existence having been
\* confirmed or its creation having succeeded, also when the call overlaps
\* the existence check of the first call or follows a check or a creation
\* that failed; so no call is rejected because the topic is not found.
C40_TopicBeforePublish ==
    /\ \A c \in scheduling : c.pc = "publish" => ScheduledTopicName(Prefix) \in topics
    /\ \A k \in 1..Len(settled) :
          settled[k].error # <<>> => settled[k].error[Len(settled[k].error)] # "Not Found"

====
